---------------------------- MODULE Spec2Model ----------------------------
(***************************************************************************)
(* RasPiAPRS (src/src/main.py): the position filter, the GPS acquisition   *)
(* path with its background health check, the SmartBeaconing trigger, the  *)
(* persistent counters and the scheduler loop.                             *)
(*                                                                         *)
(* Numbers.  Python floats are modelled as fixed-point integers with three *)
(* decimals (FP = 1000 stands for 1.0).  Positions are measured in metres  *)
(* north / east of a reference point close to the equator, so that one     *)
(* unit of latitude and one unit of longitude are the same length          *)
(* (cos(lat) = 1) and the great-circle distance of two nearby points is    *)
(* their Euclidean distance.  Time is counted in whole seconds.            *)
(***************************************************************************)
EXTENDS Integers, Sequences, FiniteSets, TLC

VARIABLES
    now,             \* the clock: datetime.now / time.time / TPV time, seconds
    daemon,          \* gpsd as the pollers find it: "down", "nofix", "fix"
    cfg,             \* Config
    healthy,         \* GPSHandler.healthy
    last_valid_fix,  \* GPSHandler.last_valid_fix
    kf_lat,          \* GPSHandler.kf_lat
    kf_lon,          \* GPSHandler.kf_lon
    gps_cache,       \* the content of GPS_FILE
    acq,             \* the get_position / get_satellites call in progress
    hc,              \* the run_health_check task
    ret,             \* what the last finished call of the handler returned
    sb,              \* the SmartBeaconing instance
    sb_out,          \* the last call of should_send: its argument and outcome
    scn,             \* the drive along a path with one turn: the fixes fed so far
    timer,           \* the Timer: the content of its file and its _count
    reload_event,    \* the asyncio.Event set by SIGHUP
    loop,            \* process_loop: where it is and its local variables
    log,             \* the reports dispatched in the current iteration, in order
    proc,            \* the process: main and the __main__ block around it
    counter,         \* a PersistentCounter used through its scope
    gaps,            \* per task, the ticks walked since its condition last held
    kf_out,          \* a KalmanTracker used on its own: its last call and what it returned
    aio,             \* main() and the health-check tasks on the asyncio event loop
    aprs             \* APRSSender: a send_telemetry call, its sequence file and its send_packet

(***************************************************************************)
(* Bounds of the model.                                                    *)
(***************************************************************************)
MaxTime == 2

(***************************************************************************)
(* Fixed-point helpers.                                                    *)
(***************************************************************************)
FP == 10 * 10 * 10

Abs(a) == IF a < 0 THEN 0 - a ELSE a

Max(a, b) == IF a > b THEN a ELSE b

Min(a, b) == IF a < b THEN a ELSE b

\* a * b of two fixed-point numbers, rounded towards minus infinity
FMul(a, b) == (a * b) \div FP

\* a / b of two fixed-point numbers, rounded towards minus infinity
FDiv(a, b) == (a * FP) \div b

RECURSIVE SqrtSearch(_, _, _)
SqrtSearch(n, lo, hi) ==
    IF lo >= hi THEN lo
    ELSE LET mid == (lo + hi + 1) \div 2
         IN  IF mid * mid <= n THEN SqrtSearch(n, mid, hi)
                               ELSE SqrtSearch(n, lo, mid - 1)

\* math.sqrt on integers: the largest r with r * r <= n
ISqrt(n) == SqrtSearch(n, 0, 46 * FP)

\* None of Python, where the other values are records
None == [none |-> TRUE]

\* None of Python, where the other values are times
NoTime == 0 - 1

(***************************************************************************)
(* KalmanTracker.  dt is a whole number of seconds; x, v and the           *)
(* covariance entries are fixed-point.  A noise constant below the         *)
(* resolution of the fixed-point format is represented by one unit, the    *)
(* smallest positive value, so that S = p + r stays positive as in the     *)
(* source.                                                                 *)
(***************************************************************************)
process_noise == 1

measurement_noise_pos == 1

measurement_noise_vel == 1

KalmanTracker_init ==
    [x |-> 0, v |-> 0, p_xx |-> FP, p_xv |-> 0, p_vv |-> FP,
     q |-> process_noise, r_pos |-> measurement_noise_pos,
     r_vel |-> measurement_noise_vel, last_time |-> NoTime]

\* lines 441-444: time update of the estimate and of the covariance
KalmanPredictStep(kf, dt) ==
    [kf EXCEPT !.x    = kf.x + kf.v * dt,
               !.p_xx = kf.p_xx + 2 * kf.p_xv * dt + kf.p_vv * dt * dt
                          + (kf.q * dt * dt * dt) \div 3,
               !.p_xv = kf.p_xv + kf.p_vv * dt + (kf.q * dt * dt) \div 2,
               !.p_vv = kf.p_vv + kf.q * dt]

\* lines 445-454: correction by the measured position
KalmanCorrectPos(kf, pos) ==
    LET y   == pos - kf.x
        s   == kf.p_xx + kf.r_pos
        k_x == FDiv(kf.p_xx, s)
        k_v == FDiv(kf.p_xv, s)
    IN  [kf EXCEPT !.x    = kf.x + FMul(k_x, y),
                   !.v    = kf.v + FMul(k_v, y),
                   !.p_xx = FMul(FP - k_x, kf.p_xx),
                   !.p_xv = FMul(FP - k_x, kf.p_xv),
                   !.p_vv = kf.p_vv - FMul(k_v, kf.p_xv)]

\* lines 455-464: correction by the measured velocity
KalmanCorrectVel(kf, vel) ==
    LET y_v   == vel - kf.v
        s_v   == kf.p_vv + kf.r_vel
        k_x_v == FDiv(kf.p_xv, s_v)
        k_v_v == FDiv(kf.p_vv, s_v)
    IN  [kf EXCEPT !.x    = kf.x + FMul(k_x_v, y_v),
                   !.v    = kf.v + FMul(k_v_v, y_v),
                   !.p_xx = kf.p_xx - FMul(k_x_v, kf.p_xv),
                   !.p_xv = kf.p_xv - FMul(k_x_v, kf.p_vv),
                   !.p_vv = kf.p_vv - FMul(k_v_v, kf.p_vv)]

\* variant of first_call that treats no call as the first one
first_call_never(kf) == FALSE

\* line 432: the filter has seen no update yet
first_call(kf) == kf.last_time = NoTime

\* variant of stale that lets every timestamp pass
stale_never(dt) == FALSE

\* line 438: the timestamp is not later than that of the last update
stale(dt) == dt <= 0

\* KalmanTracker.update: the new filter state and the returned (pos, vel)
update(kf, pos, vel, current_time) ==
    IF first_call(kf)
    THEN [kf  |-> [kf EXCEPT !.x = pos, !.v = vel, !.last_time = current_time],
          pos |-> pos, vel |-> vel]
    ELSE LET dt == current_time - kf.last_time
         IN  IF stale(dt)
             THEN [kf |-> kf, pos |-> kf.x, vel |-> kf.v]
             ELSE LET k1 == KalmanPredictStep([kf EXCEPT !.last_time = current_time], dt)
                      k2 == KalmanCorrectPos(k1, pos)
                      k3 == KalmanCorrectVel(k2, vel)
                  IN  [kf |-> k3, pos |-> k3.x, vel |-> k3.v]

\* variant of predict that extrapolates from time 0
predict_from_epoch(kf, current_time) ==
    [pos |-> kf.x + kf.v * current_time, vel |-> kf.v]

\* KalmanTracker.predict: the returned (pos, vel); the filter is not changed
predict(kf, current_time) ==
    IF kf.last_time = NoTime
    THEN [pos |-> kf.x, vel |-> kf.v]
    ELSE [pos |-> kf.x + kf.v * (current_time - kf.last_time), vel |-> kf.v]


(***************************************************************************)
(* Trigonometry of get_position on the courses the model uses (multiples   *)
(* of 45 degrees).                                                         *)
(***************************************************************************)
\* math.cos(math.radians(deg)), fixed-point
CosDeg(deg) ==
    CASE deg % 360 = 0   -> FP
      [] deg % 360 = 45  -> 707
      [] deg % 360 = 90  -> 0
      [] deg % 360 = 135 -> 0 - 707
      [] deg % 360 = 180 -> 0 - FP
      [] deg % 360 = 225 -> 0 - 707
      [] deg % 360 = 270 -> 0
      [] deg % 360 = 315 -> 707

\* math.sin(math.radians(deg)), fixed-point
SinDeg(deg) == CosDeg(deg + 270)

\* math.degrees(math.atan2(y, x)) rounded to the nearest multiple of 45
Atan2Deg(y, x) ==
    LET a == Abs(y)
        b == Abs(x)
        t == IF a * 1000 <= b * 414 THEN 0
             ELSE IF b * 1000 < a * 414 THEN 90
             ELSE 45
    IN  IF x = 0 /\ y = 0 THEN 0
        ELSE IF x >= 0 THEN (IF y >= 0 THEN t ELSE 0 - t)
        ELSE (IF y >= 0 THEN 180 - t ELSE t - 180)

\* r_earth * math.pi / 180.0: the length of one unit of latitude, which is
\* one metre in the model's coordinates
UnitLen == FP

\* math.cos(math.radians(lat)) close to the equator
CosLat(lat) == FP

(***************************************************************************)
(* GPSHandler.                                                             *)
(***************************************************************************)
\* the TPV reports with mode > 1 that gpsd can deliver at time t
TpvReports(t) ==
    {[time |-> t, lat |-> 3 * FP, lon |-> 2 * FP, alt |-> 7 * FP, speed |-> 0, track |-> 0],
     [time |-> t, lat |-> 15 * FP, lon |-> 2 * FP, alt |-> 7 * FP, speed |-> 20 * FP, track |-> 90]}

\* the SKY reports that gpsd can deliver at time t
SkyReports(t) == {[time |-> t, uSat |-> u, nSat |-> 9] : u \in {0, 5}}

\* _fetch_from_gpsd, run by a worker thread: the values it can return when
\* gpsd is in state d at time t.  An exception is returned as a value.
fetch_from_gpsd(filter_class, d, t) ==
    IF d = "down" THEN {[tag |-> "exc"]}
    ELSE CASE filter_class = "TPV" ->
                IF d = "fix" THEN {[tag |-> "result", data |-> r] : r \in TpvReports(t)}
                ELSE {[tag |-> "none"], [tag |-> "exc"]}
           [] filter_class = "SKY" ->
                {[tag |-> "result", data |-> r] : r \in SkyReports(t)}
           [] filter_class = "VERSION" ->
                {[tag |-> "result", data |-> [release |-> 3]]}

\* variant of retrieve_data_skips that polls although the flag is false
retrieve_data_skips_ignoring_health(c, h) == ~c.gpsd_enabled

\* _retrieve_data, lines 500-503: TRUE when the poll is skipped
retrieve_data_skips(c, h) == ~c.gpsd_enabled \/ ~h

\* variant of retrieve_data_resume without the except clause of line 517
retrieve_data_resume_uncaught(res) ==
    CASE res.tag = "exc"    -> [healthy |-> TRUE, result |-> None, raised |-> TRUE]
      [] res.tag = "result" -> [healthy |-> TRUE, result |-> res.data, raised |-> FALSE]
      [] res.tag = "none"   -> [healthy |-> FALSE, result |-> None, raised |-> FALSE]

\* _retrieve_data, lines 506-520, once the worker has returned res
retrieve_data_resume(res) ==
    CASE res.tag = "exc"    -> [healthy |-> FALSE, result |-> None, raised |-> FALSE]
      [] res.tag = "result" -> [healthy |-> TRUE, result |-> res.data, raised |-> FALSE]
      [] res.tag = "none"   -> [healthy |-> FALSE, result |-> None, raised |-> FALSE]

\* _get_fallback_location
get_fallback_location(cache, c) ==
    LET cached == IF cache # None THEN cache ELSE [lat |-> 0, lon |-> 0, alt |-> 0]
    IN  IF cached.lat = 0 /\ cached.lon = 0
        THEN [lat |-> c.latitude, lon |-> c.longitude, alt |-> c.altitude]
        ELSE cached

\* get_position, lines 556-576: a report was retrieved
get_position_live(g, result) ==
    LET utc     == result.time
        spd     == result.speed
        cse     == result.track
        v_north == FMul(spd, CosDeg(cse))
        v_east  == FMul(spd, SinDeg(cse))
        v_lat   == FDiv(v_north, UnitLen)
        v_lon   == IF CosLat(result.lat) # 0
                   THEN FDiv(v_east, FMul(UnitLen, CosLat(result.lat))) ELSE 0
        u_lat   == update(g.kf_lat, result.lat, v_lat, utc)
        u_lon   == update(g.kf_lon, result.lon, v_lon, utc)
        v_north_s == FMul(u_lat.vel, UnitLen)
        v_east_s  == FMul(u_lon.vel, FMul(UnitLen, CosLat(u_lat.pos)))
        fix     == [time |-> utc, lat |-> u_lat.pos, lon |-> u_lon.pos, alt |-> result.alt,
                    spd  |-> ISqrt(v_north_s * v_north_s + v_east_s * v_east_s),
                    cse  |-> (Atan2Deg(v_east_s, v_north_s) + 360) % 360]
    IN  [kf_lat |-> u_lat.kf, kf_lon |-> u_lon.kf,
         gps_cache |-> [lat |-> fix.lat, lon |-> fix.lon, alt |-> fix.alt],
         last_valid_fix |-> fix, ret |-> fix]

\* variant of get_position_fallback that asks the cache before the filter
get_position_fallback_cache_first(g, c, timestamp) ==
    LET env == get_fallback_location(g.gps_cache, c)
    IN  [g EXCEPT !.ret = [time |-> timestamp, lat |-> env.lat, lon |-> env.lon,
                           alt |-> env.alt, spd |-> 0, cse |-> 0]]

\* get_position, lines 577-590: nothing was retrieved
get_position_fallback(g, c, timestamp) ==
    IF g.last_valid_fix # None
    THEN LET p_lat == predict(g.kf_lat, timestamp)
             p_lon == predict(g.kf_lon, timestamp)
             v_north_s == FMul(p_lat.vel, UnitLen)
             v_east_s  == FMul(p_lon.vel, FMul(UnitLen, CosLat(g.last_valid_fix.lat)))
         IN  [g EXCEPT !.ret =
                [time |-> timestamp, lat |-> p_lat.pos, lon |-> p_lon.pos,
                 alt  |-> g.last_valid_fix.alt,
                 spd  |-> ISqrt(v_north_s * v_north_s + v_east_s * v_east_s),
                 cse  |-> (Atan2Deg(v_east_s, v_north_s) + 360) % 360]]
    ELSE LET env == get_fallback_location(g.gps_cache, c)
         IN  [g EXCEPT !.ret = [time |-> timestamp, lat |-> env.lat, lon |-> env.lon,
                                alt |-> env.alt, spd |-> 0, cse |-> 0]]

\* get_position, lines 555-590, from the result of _retrieve_data on
get_position_finish(g, c, result, timestamp) ==
    IF result # None THEN get_position_live(g, result)
    ELSE get_position_fallback(g, c, timestamp)

\* get_satellites, lines 598-603
get_satellites_finish(result, timestamp) ==
    IF result # None
    THEN [time |-> result.time, uSat |-> result.uSat, nSat |-> result.nSat]
    ELSE [time |-> timestamp, uSat |-> 0, nSat |-> 0]

\* the fields of the handler that get_position reads and writes
Handler ==
    [kf_lat |-> kf_lat, kf_lon |-> kf_lon, gps_cache |-> gps_cache,
     last_valid_fix |-> last_valid_fix, ret |-> None]

gpsVars == <<healthy, last_valid_fix, kf_lat, kf_lon, gps_cache>>

sbVars == <<sb, sb_out>>

loopVars == <<timer, reload_event, loop, log, proc>>

benchVars == <<counter, gaps, kf_out, aio, aprs>>

\* what the handler and its health check never touch
restVars == <<sbVars, scn, loopVars, benchVars>>

envVars == <<now, daemon>>

Pending == [tag |-> "pending"]

AcqIdle == [pc |-> "idle", kind |-> "TPV", caller |-> "none", timestamp |-> 0, future |-> Pending]

\* get_position of a handler with GPSD disabled, line 553
ZeroFix(timestamp) ==
    [time |-> timestamp, lat |-> 0, lon |-> 0, alt |-> 0, spd |-> 0, cse |-> 0]

\* the handler fields and the returned value when a call finishes with the
\* result of _retrieve_data
FinishCall(kind, result, timestamp) ==
    IF kind = "TPV"
    THEN LET g == get_position_finish(Handler, cfg, result, timestamp)
         IN  /\ kf_lat' = g.kf_lat
             /\ kf_lon' = g.kf_lon
             /\ gps_cache' = g.gps_cache
             /\ last_valid_fix' = g.last_valid_fix
             /\ ret' = [call |-> "get_position", val |-> g.ret, raised |-> FALSE]
    ELSE /\ UNCHANGED <<kf_lat, kf_lon, gps_cache, last_valid_fix>>
         /\ ret' = [call |-> "get_satellites",
                    val |-> get_satellites_finish(result, timestamp), raised |-> FALSE]

\* get_position (kind TPV) or get_satellites (kind SKY) from the call to the
\* first suspension: it returns at once when GPSD is disabled or unhealthy
\* and hands the poll to a worker otherwise
AcquireBegin(kind, caller) ==
    /\ acq.pc = "idle"
    /\ IF ~cfg.gpsd_enabled
       THEN /\ ret' = IF kind = "TPV"
                      THEN [call |-> "get_position", val |-> ZeroFix(now), raised |-> FALSE]
                      ELSE [call |-> "get_satellites", raised |-> FALSE,
                            val |-> [time |-> now, uSat |-> 0, nSat |-> 0]]
            /\ UNCHANGED <<acq, gpsVars>>
       ELSE IF retrieve_data_skips(cfg, healthy)
       THEN /\ FinishCall(kind, None, now)
            /\ UNCHANGED <<acq, healthy>>
       ELSE /\ acq' = [pc |-> "polling", kind |-> kind, caller |-> caller,
                       timestamp |-> now, future |-> Pending]
            /\ UNCHANGED <<ret, gpsVars>>

\* the worker thread finishes _fetch_from_gpsd and completes the future
WorkerDone ==
    /\ acq.pc = "polling"
    /\ acq.future = Pending
    /\ \E o \in fetch_from_gpsd(acq.kind, daemon, now) : acq' = [acq EXCEPT !.future = o]
    /\ UNCHANGED <<gpsVars, envVars, cfg, hc, ret, restVars>>

\* _retrieve_data resumes with the worker's value and the call finishes
AcquireResume ==
    /\ acq.pc = "polling"
    /\ acq.future # Pending
    /\ LET r == retrieve_data_resume(acq.future)
       IN  IF r.raised
           THEN /\ ret' = [call |-> IF acq.kind = "TPV" THEN "get_position" ELSE "get_satellites",
                           val |-> None, raised |-> TRUE]
                /\ UNCHANGED gpsVars
           ELSE /\ healthy' = r.healthy
                /\ FinishCall(acq.kind, r.result, acq.timestamp)
    /\ acq' = AcqIdle

\* a caller outside the scheduler loop calls get_position
CallGetPosition ==
    /\ AcquireBegin("TPV", "caller")
    /\ UNCHANGED <<envVars, cfg, hc, restVars>>

\* a caller outside the scheduler loop calls get_satellites
CallGetSatellites ==
    /\ AcquireBegin("SKY", "caller")
    /\ UNCHANGED <<envVars, cfg, hc, restVars>>

\* the call of the outside caller returns
CallReturns ==
    /\ acq.caller = "caller"
    /\ AcquireResume
    /\ UNCHANGED <<envVars, cfg, hc, restVars>>

(***************************************************************************)
(* run_health_check, a task of its own.                                    *)
(***************************************************************************)
\* lines 620-628: the task starts and hands the first VERSION poll to a worker
HealthCheckStart ==
    /\ hc.pc = "created"
    /\ IF ~cfg.gpsd_enabled
       THEN /\ healthy' = FALSE
            /\ hc' = [hc EXCEPT !.pc = "returned"]
       ELSE /\ hc' = [pc |-> "polling", future |-> Pending]
            /\ UNCHANGED healthy
    /\ UNCHANGED <<last_valid_fix, kf_lat, kf_lon, gps_cache, envVars, cfg, acq, ret, restVars>>

\* the worker thread finishes _fetch_from_gpsd('VERSION')
HealthWorkerDone ==
    /\ hc.pc = "polling"
    /\ hc.future = Pending
    /\ \E o \in fetch_from_gpsd("VERSION", daemon, now) : hc' = [hc EXCEPT !.future = o]
    /\ UNCHANGED <<gpsVars, envVars, cfg, acq, ret, restVars>>

\* variant of HealthCheckResume that also drops the last valid fix when the
\* poll failed
HealthCheckResume_dropping_fix ==
    /\ hc.pc = "polling"
    /\ hc.future # Pending
    /\ healthy' = (hc.future.tag = "result")
    /\ last_valid_fix' = IF hc.future.tag = "result" THEN last_valid_fix ELSE None
    /\ hc' = [pc |-> "sleeping", future |-> Pending]
    /\ UNCHANGED <<kf_lat, kf_lon, gps_cache, envVars, cfg, acq, ret, restVars>>

\* lines 629-644: the flag is set from the worker's value, then the task sleeps
HealthCheckResume ==
    /\ hc.pc = "polling"
    /\ hc.future # Pending
    /\ healthy' = (hc.future.tag = "result")
    /\ hc' = [pc |-> "sleeping", future |-> Pending]
    /\ UNCHANGED <<last_valid_fix, kf_lat, kf_lon, gps_cache, envVars, cfg, acq, ret, restVars>>

\* variant of HealthCheckWake in which the sleep of the task never ends
HealthCheckWake_never ==
    /\ FALSE
    /\ UNCHANGED <<gpsVars, envVars, cfg, acq, hc, ret, restVars>>

\* line 644 and 626-628: the sleep ends and the next poll is handed to a worker
HealthCheckWake ==
    /\ hc.pc = "sleeping"
    /\ hc' = [pc |-> "polling", future |-> Pending]
    /\ UNCHANGED <<gpsVars, envVars, cfg, acq, ret, restVars>>

(***************************************************************************)
(* The environment.                                                        *)
(***************************************************************************)
Tick ==
    /\ now < MaxTime
    /\ now' = now + 1
    /\ UNCHANGED <<daemon, gpsVars, cfg, acq, hc, ret, restVars>>

DaemonChange ==
    /\ daemon' \in {"down", "nofix", "fix"} \ {daemon}
    /\ UNCHANGED <<now, gpsVars, cfg, acq, hc, ret, restVars>>

(***************************************************************************)
(* The handler with its health check, called from outside the scheduler.   *)
(***************************************************************************)
vars == <<now, daemon, cfg, healthy, last_valid_fix, kf_lat, kf_lon, gps_cache, acq, hc, ret,
          sb, sb_out, scn, timer, reload_event, loop, log, proc, counter, gaps,
          kf_out, aio, aprs>>

\* Config with the defaults of lines 160-181 and coordinates of the model
Config(gpsd, smart) ==
    [gpsd_enabled |-> gpsd, latitude |-> 4 * FP, longitude |-> 6 * FP, altitude |-> 9 * FP,
     sleep |-> 600,
     smartbeaconing_enabled |-> smart,
     smartbeaconing_fast_speed |-> 100, smartbeaconing_slow_speed |-> 10,
     smartbeaconing_fast_rate |-> 60, smartbeaconing_slow_rate |-> 600,
     smartbeaconing_min_turn_angle |-> 28, smartbeaconing_turn_slope |-> 255,
     smartbeaconing_min_turn_time |-> 5]

\* the configurations of the handler
Configs == {Config(g, TRUE) : g \in BOOLEAN}

\* SmartBeaconing.__init__
SmartBeaconing_init ==
    [last_beacon_time |-> 0, last_course |-> 0, parked_lat |-> 0, parked_lon |-> 0,
     is_moving |-> FALSE, initialized |-> FALSE]

\* no call of should_send yet
NoCall == [fix |-> None, ret |-> FALSE, exc |-> "none", calls |-> 0]

\* no drive
NoScenario == [turn_at |-> 0, course |-> 0, turn |-> 0, fed |-> 0, reported |-> FALSE]

\* Timer.__init__, with the file holding stored
Timer_init(stored) == [file |-> stored, count |-> 0]

\* process_loop before its first iteration
LoopIdle ==
    [pc |-> "top", iter |-> 0, tick |-> 0, gps_data |-> None, conds |-> <<>>, idx |-> 0,
     packet_sent |-> FALSE]

\* no exit status yet, no tick read yet
NoExit == 0 - 1

NoTick == 0 - 1

\* the process while main runs its first session: no tick scope of this
\* or an earlier process has completed, no write of the tick file has failed
ProcRunning ==
    [pc |-> "running", exit_code |-> NoExit, cause |-> "none", sessions |-> 1,
     last_tick |-> NoTick, writes_ok |-> TRUE]

\* no counter scope in use
NoCounter ==
    [pc |-> "idle", file |-> None, modulo |-> 1, count |-> 0, calls |-> 0, returned |-> 0,
     loaded |-> 0, body_raised |-> FALSE, write_ok |-> TRUE, propagated |-> FALSE,
     release_raised |-> FALSE, stored |-> None, saved |-> FALSE]

\* no call of the filter yet
NoKfCall ==
    [op |-> "none", pos |-> 0, vel |-> 0, t |-> 0, before |-> KalmanTracker_init,
     ret_pos |-> 0, ret_vel |-> 0, calls |-> 0]

\* main, line 1442: health_check_task = None
NoTask == 0

\* the event loop before asyncio.run(main()): main is about to run its
\* first session, no task has been created, nothing is ready to run
NoLoop ==
    [pc |-> "top", sessions |-> 0, health_check_task |-> NoTask, cause |-> "none",
     tasks |-> <<>>, ready |-> <<>>]

\* APRSSender before its first send_telemetry: the sequence file is
\* missing, no sequence number has been used, nothing is being sent
NoSend ==
    [pc |-> "idle", file |-> [kind |-> "missing"], seq |-> NoTick, prev |-> NoTick,
     attempt |-> 0, handed |-> 0]

\* a task whose condition has not held yet: the ticks since it last held, or
\* since the start, and the distance of the last two ticks on which it held
NoGap == [since |-> 0, seen |-> FALSE, last_gap |-> 0, due |-> FALSE]

\* no tick walked
NoGaps == [walked |-> 0, tick |-> 0, pos |-> NoGap, hdr |-> NoGap, tel |-> NoGap, exc |-> "none"]

\* the variables of the trigger and of the scheduler before anything ran
InitRest ==
    /\ sb = SmartBeaconing_init
    /\ sb_out = NoCall
    /\ scn = NoScenario
    /\ timer = Timer_init(0)
    /\ reload_event = FALSE
    /\ loop = LoopIdle
    /\ log = <<>>
    /\ proc = ProcRunning
    /\ counter = NoCounter
    /\ gaps = NoGaps
    /\ kf_out = NoKfCall
    /\ aio = NoLoop
    /\ aprs = NoSend

\* GPS_FILE at the start: missing, or the record of an earlier run
Caches == {None, [lat |-> 0, lon |-> 0, alt |-> 0], [lat |-> 5 * FP, lon |-> 8 * FP, alt |-> 3 * FP]}

InitGps ==
    /\ now = 0
    /\ daemon \in {"down", "nofix", "fix"}
    /\ cfg \in Configs
    /\ healthy = TRUE
    /\ last_valid_fix = None
    /\ kf_lat = KalmanTracker_init
    /\ kf_lon = KalmanTracker_init
    /\ gps_cache \in Caches
    /\ acq = AcqIdle
    /\ hc = [pc |-> IF cfg.gpsd_enabled THEN "created" ELSE "absent", future |-> Pending]
    /\ ret = [call |-> "none", val |-> None, raised |-> FALSE]
    /\ InitRest

NextGps ==
    \/ CallGetPosition
    \/ CallGetSatellites
    \/ WorkerDone
    \/ CallReturns
    \/ HealthCheckStart
    \/ HealthWorkerDone
    \/ HealthCheckResume
    \/ HealthCheckWake
    \/ Tick
    \/ DaemonChange

SpecGps == InitGps /\ [][NextGps]_vars

(***************************************************************************)
(* Properties of the acquisition path.                                     *)
(***************************************************************************)
\* a step in which run_health_check sets the flag
HealthCheckSets == hc.pc = "polling" /\ hc'.pc = "sleeping"

\* a step in which a poll of the acquisition path is resumed
AcquisitionResumes == acq.pc = "polling" /\ acq'.pc = "idle"

\* a step in which get_position returns without having polled
PositionReturnsUnpolled ==
    acq.pc = "idle" /\ acq'.pc = "idle" /\ ret' # ret /\ ret'.call = "get_position"

\* C1 as stated: the flag goes from false to true only in a step of
\* run_health_check, never in a step of the acquisition path.
C1_OnlyHealthCheckRestores ==
    [][(~healthy /\ healthy') => HealthCheckSets]_vars

\* C1, amended: the flag goes from false to true only in a step of
\* run_health_check or when a poll of the acquisition path that was in flight
\* while the health check cleared the flag comes back with a report; while the
\* flag is false the acquisition path dispatches no poll, and a call made then
\* leaves the flag false.
C1_RestoreOnlyByInFlightPoll ==
    [][/\ (~healthy /\ healthy') =>
            \/ HealthCheckSets
            \/ AcquisitionResumes /\ acq.future.tag = "result"
       /\ (~healthy /\ acq.pc = "idle") => acq'.pc = "idle"
       /\ (~healthy /\ PositionReturnsUnpolled) => ~healthy']_vars

\* a poll of the acquisition path has come back with a report after the
\* health check cleared the flag
C1_Witness == ~healthy /\ acq.pc = "polling" /\ acq.future.tag = "result"

FixFields == {"time", "lat", "lon", "alt", "spd", "cse"}

\* C2: with GPSD enabled, a get_position that got no report (the poll was
\* skipped because the flag is false, or it returned nothing or an error)
\* returns the linear extrapolation of the two filters when a valid fix was
\* obtained before, otherwise the cached coordinates when the cache holds
\* coordinates other than (0, 0), otherwise the configured coordinates; the
\* two latter with speed 0 and course 0.
C2_FallbackLadder ==
    [][(cfg.gpsd_enabled /\
        \/ PositionReturnsUnpolled
        \/ AcquisitionResumes /\ acq.kind = "TPV" /\ acq.future.tag \in {"none", "exc"})
       =>
       LET ts == IF acq.pc = "idle" THEN now ELSE acq.timestamp
           f  == ret'.val
       IN  /\ ~ret'.raised
           /\ f.time = ts
           /\ IF last_valid_fix # None
              THEN /\ f.lat = kf_lat.x + kf_lat.v * (ts - kf_lat.last_time)
                   /\ f.lon = kf_lon.x + kf_lon.v * (ts - kf_lon.last_time)
                   /\ f.alt = last_valid_fix.alt
              ELSE IF gps_cache # None /\ ~(gps_cache.lat = 0 /\ gps_cache.lon = 0)
              THEN /\ f.lat = gps_cache.lat /\ f.lon = gps_cache.lon /\ f.alt = gps_cache.alt
                   /\ f.spd = 0 /\ f.cse = 0
              ELSE /\ f.lat = cfg.latitude /\ f.lon = cfg.longitude /\ f.alt = cfg.altitude
                   /\ f.spd = 0 /\ f.cse = 0]_vars

\* get_position has returned a dead-reckoned position that lies ahead of the
\* last filtered one
C2_Witness ==
    /\ ret.call = "get_position"
    /\ last_valid_fix # None
    /\ ~healthy
    /\ ret.val.time > kf_lon.last_time
    /\ ret.val.lon = kf_lon.x + kf_lon.v * (ret.val.time - kf_lon.last_time)
    /\ ret.val.lon # kf_lon.x

\* C3: whatever the worker returned (a report, nothing, an exception),
\* get_position returns a fix with all six fields and raises nothing, and
\* after an exception the flag is false and the filters, the last valid fix
\* and the cache are as before.
C3_AlwaysAFix ==
    [][((AcquisitionResumes /\ acq.kind = "TPV") \/ PositionReturnsUnpolled)
       =>
       /\ ~ret'.raised
       /\ DOMAIN ret'.val = FixFields
       /\ (acq.pc = "polling" /\ acq.future.tag = "exc") =>
             /\ ~healthy'
             /\ UNCHANGED <<kf_lat, kf_lon, last_valid_fix, gps_cache>>]_vars

\* get_position has returned the configured coordinates after an exception of
\* the worker
C3_Witness ==
    /\ ret.call = "get_position"
    /\ ~ret.raised
    /\ cfg.gpsd_enabled
    /\ ~healthy
    /\ daemon = "down"
    /\ last_valid_fix = None
    /\ ret.val.lat = cfg.latitude

(***************************************************************************)
(* SmartBeaconing.  A Python value that is either an int or a str is a     *)
(* record with its kind; a comparison of a str with an int raises          *)
(* TypeError.                                                              *)
(***************************************************************************)
PyInt(n) == [kind |-> "int", n |-> n]

PyStr(digits) == [kind |-> "str", s |-> digits]

\* round(val) of the format specification .0f: to the nearest integer, ties
\* to the even one; val is fixed-point and not negative
RoundHalfEven(val) ==
    LET q == val \div FP
        r == val % FP
    IN  IF 2 * r > FP THEN q + 1
        ELSE IF 2 * r < FP THEN q
        ELSE IF q % 2 = 0 THEN q ELSE q + 1

\* f'{n:03d}' for 0 <= n <= 999: the three digits
Digits3(n) == <<n \div 100, (n \div 10) % 10, n % 10>>

\* _format_speed: the str of the clamped and rounded value
format_speed(val) == PyStr(Digits3(RoundHalfEven(Max(0, Min(999 * FP, val)))))

\* _spd_to_kmh: metres per second to the formatted km/h
spd_to_kmh(spd) == format_speed(IF spd # 0 THEN (spd * 36) \div 10 ELSE 0)

\* GPSHandler.calculate_distance in metres, fixed-point, for points that are
\* close to each other (the coordinates are taken in centimetres)
calculate_distance(lat1, lon1, lat2, lon2) ==
    LET dn == (lat2 - lat1) \div 10
        de == (lon2 - lon1) \div 10
    IN  10 * ISqrt(dn * dn + de * de)

\* variant of _calculate_rate without the interpolation
calculate_rate_step(c, spd_kmh) ==
    IF spd_kmh > c.smartbeaconing_fast_speed THEN c.smartbeaconing_fast_rate
    ELSE c.smartbeaconing_slow_rate

\* _calculate_rate for a numeric speed in whole km/h; int() truncates
calculate_rate(c, spd_kmh) ==
    IF spd_kmh > c.smartbeaconing_fast_speed THEN c.smartbeaconing_fast_rate
    ELSE IF spd_kmh < c.smartbeaconing_slow_speed THEN c.smartbeaconing_slow_rate
    ELSE LET d == ((spd_kmh - c.smartbeaconing_slow_speed)
                     * (c.smartbeaconing_slow_rate - c.smartbeaconing_fast_rate) * FP)
                  \div (c.smartbeaconing_fast_speed - c.smartbeaconing_slow_speed)
             v == c.smartbeaconing_slow_rate * FP - d
         IN  IF v >= 0 THEN v \div FP ELSE 0 - ((0 - v) \div FP)

\* variant of heading_change without the wrap at 180 degrees
heading_change_linear(last_course, cse) == Abs(cse - last_course)

\* lines 756-758: the heading change between last_course and cse
heading_change(last_course, cse) ==
    LET d == Abs(cse - last_course)
    IN  IF d > 180 THEN 360 - d ELSE d

\* _check_turn for a numeric speed in whole km/h: turn detected or not
check_turn(c, last_course, cse, spd_kmh) ==
    IF spd_kmh < 5 THEN FALSE
    ELSE LET turn_threshold == c.smartbeaconing_min_turn_angle * FP
                 + (c.smartbeaconing_turn_slope * FP) \div (IF spd_kmh > 0 THEN spd_kmh ELSE 1)
         IN  heading_change(last_course, cse) * FP > turn_threshold

\* variant of MovementDetected without the 10 m threshold
MovementDetected_anywhere(dist) == dist >= 0

\* line 774: movement is detected
MovementDetected(dist) == dist > 10 * FP

\* should_send, lines 785-798, for a numeric speed: the new state and the
\* returned value
should_send_rate(c, st, cse, spd_kmh, t) ==
    LET rate            == calculate_rate(c, spd_kmh)
        turn_detected   == check_turn(c, st.last_course, cse, spd_kmh)
        time_since_last == t - st.last_beacon_time
        send == \/ turn_detected /\ time_since_last > c.smartbeaconing_min_turn_time
                \/ time_since_last > rate
    IN  [sb  |-> IF send THEN [st EXCEPT !.last_beacon_time = t, !.last_course = cse] ELSE st,
         ret |-> send, exc |-> "none"]

\* should_send, lines 779-798, after the parked check
should_send_moving(c, st, gps_data, spd_kmh, t) ==
    IF spd_kmh.kind = "str"
    THEN \* line 779 compares a str with 3
         [sb |-> st, ret |-> FALSE, exc |-> "TypeError"]
    ELSE IF spd_kmh.n <= 3
    THEN [sb  |-> [st EXCEPT !.is_moving = FALSE, !.parked_lat = gps_data.lat,
                             !.parked_lon = gps_data.lon],
          ret |-> FALSE, exc |-> "none"]
    ELSE should_send_rate(c, st, gps_data.cse, spd_kmh.n, t)

\* should_send at time t: the new state, the returned value and the
\* exception that leaves the call, if any
should_send(c, st, gps_data, t) ==
    IF gps_data = None THEN [sb |-> st, ret |-> FALSE, exc |-> "none"]
    ELSE LET s1 == IF ~st.initialized
                   THEN [st EXCEPT !.parked_lat = gps_data.lat, !.parked_lon = gps_data.lon,
                                   !.initialized = TRUE]
                   ELSE st
             spd_kmh == IF gps_data.spd # 0 THEN spd_to_kmh(gps_data.spd) ELSE PyInt(0)
         IN  IF ~s1.is_moving
             THEN LET dist == calculate_distance(gps_data.lat, gps_data.lon,
                                                 s1.parked_lat, s1.parked_lon)
                  IN  IF MovementDetected(dist)
                      THEN should_send_moving(c, [s1 EXCEPT !.is_moving = TRUE],
                                              gps_data, spd_kmh, t)
                      ELSE [sb |-> s1, ret |-> FALSE, exc |-> "none"]
             ELSE should_send_moving(c, s1, gps_data, spd_kmh, t)

\* time.time() of the process: the clock of the model counts from its start
EpochStart == 1000

\* the fixes handed to should_send at time t
BeaconFixes(t) ==
    {[time |-> t, lat |-> la, lon |-> 2 * FP, alt |-> 7 * FP, spd |-> sp, cse |-> cs] :
        la \in {0, 5 * FP, 15 * FP}, sp \in {0, FP \div 2, 20 * FP}, cs \in {0, 90}}

\* should_send is called with a fix or with None
ShouldSendCall ==
    /\ \E f \in BeaconFixes(now) \cup {None} :
          LET r == should_send(cfg, sb, f, EpochStart + now)
          IN  /\ sb' = r.sb
              /\ sb_out' = [fix |-> f, ret |-> r.ret, exc |-> r.exc,
                            calls |-> (sb_out.calls + 1) % 2]
    /\ UNCHANGED <<envVars, cfg, gpsVars, acq, hc, ret, scn, loopVars, benchVars>>

InitBeacon ==
    /\ now = 0
    /\ daemon = "fix"
    /\ cfg = Config(TRUE, TRUE)
    /\ healthy = TRUE
    /\ last_valid_fix = None
    /\ kf_lat = KalmanTracker_init
    /\ kf_lon = KalmanTracker_init
    /\ gps_cache = None
    /\ acq = AcqIdle
    /\ hc = [pc |-> "absent", future |-> Pending]
    /\ ret = [call |-> "none", val |-> None, raised |-> FALSE]
    /\ InitRest

NextBeacon ==
    \/ ShouldSendCall
    \/ Tick

SpecBeacon == InitBeacon /\ [][NextBeacon]_vars

(***************************************************************************)
(* Properties of should_send.                                              *)
(***************************************************************************)
\* a step that is a call of should_send with a fix
BeaconCall == sb_out'.calls # sb_out.calls /\ sb_out'.fix # None

\* the anchor the parked check of the call compares the fix f with
AnchorLat(f) == IF sb.initialized THEN sb.parked_lat ELSE f.lat

AnchorLon(f) == IF sb.initialized THEN sb.parked_lon ELSE f.lon

\* the point (lat, lon) is at most 10 m from the point (alat, alon);
\* centimetres squared
Within10m(lat, lon, alat, alon) ==
    LET dn == (lat - alat) \div 10
        de == (lon - alon) \div 10
    IN  dn * dn + de * de <= 1000 * 1000

\* the speed of the fix f is above 3 km/h
Above3Kmh(f) == f.spd * 36 > 30 * FP

\* the speed of the fix f in whole km/h
KmhOf(f) == RoundHalfEven((f.spd * 36) \div 10)

\* C4 as stated: a call evaluated in the moving state (the trigger was
\* moving, or the fix is more than 10 m from the anchor) with a speed above
\* 3 km/h returns, and returns 'report' exactly when a turn is detected and
\* more than min_turn_time have passed since the last report, or more than
\* the rate has passed.
C4_ReportIffTurnOrRate ==
    [][(BeaconCall /\ Above3Kmh(sb_out'.fix) /\
        (sb.is_moving \/ ~Within10m(sb_out'.fix.lat, sb_out'.fix.lon,
                                    AnchorLat(sb_out'.fix), AnchorLon(sb_out'.fix))))
       =>
       LET f     == sb_out'.fix
           since == EpochStart + now - sb.last_beacon_time
       IN  /\ sb_out'.exc = "none"
           /\ sb_out'.ret =
                (\/ check_turn(cfg, sb.last_course, f.cse, KmhOf(f))
                      /\ since > cfg.smartbeaconing_min_turn_time
                 \/ since > calculate_rate(cfg, KmhOf(f)))]_vars

C6_Transitions ==
    [][BeaconCall =>
       LET f == sb_out'.fix
       IN  /\ ~sb.initialized => sb'.initialized
           /\ (~sb.initialized /\ ~sb'.is_moving) =>
                 (sb'.parked_lat = f.lat /\ sb'.parked_lon = f.lon)
           /\ (~sb.is_moving /\ f.spd # 0 /\
               ~Within10m(f.lat, f.lon, AnchorLat(f), AnchorLon(f))) => sb'.is_moving
           /\ (sb.is_moving /\ ~Above3Kmh(f)) =>
                 (~sb'.is_moving /\ sb'.parked_lat = f.lat /\ sb'.parked_lon = f.lon)]_vars

(***************************************************************************)
(* A drive: fixes at 1 Hz along a straight path at 20 m/s, then a turn of  *)
(* 90 degrees to the right or to the left.                                 *)
(***************************************************************************)
MaxTurnAt == 5

\* the course of fix i of the drive
DriveCourse(d, i) == IF i < d.turn_at THEN d.course ELSE (d.course + d.turn) % 360

\* the metres driven north and east up to fix i
RECURSIVE DriveNorth(_, _)
DriveNorth(d, i) ==
    IF i = 0 THEN 0 ELSE DriveNorth(d, i - 1) + (20 * CosDeg(DriveCourse(d, i))) \div FP

RECURSIVE DriveEast(_, _)
DriveEast(d, i) ==
    IF i = 0 THEN 0 ELSE DriveEast(d, i - 1) + (20 * SinDeg(DriveCourse(d, i))) \div FP

\* fix i of the drive, taken at second i
DriveFix(d, i) ==
    [time |-> i, lat |-> (100 + DriveNorth(d, i)) * FP, lon |-> (100 + DriveEast(d, i)) * FP,
     alt |-> 7 * FP, spd |-> 20 * FP, cse |-> DriveCourse(d, i)]

\* the next fix of the drive is handed to should_send
DriveFeed ==
    /\ scn.fed <= scn.turn_at + cfg.smartbeaconing_min_turn_time
    /\ LET i == scn.fed
           f == DriveFix(scn, i)
           r == should_send(cfg, sb, f, EpochStart + i)
       IN  /\ sb' = r.sb
           /\ sb_out' = [fix |-> f, ret |-> r.ret, exc |-> r.exc,
                         calls |-> (sb_out.calls + 1) % 2]
           /\ scn' = [scn EXCEPT !.fed = i + 1,
                                 !.reported = scn.reported \/
                                     (i >= scn.turn_at /\ r.exc = "none" /\ r.ret)]
           /\ now' = i
    /\ UNCHANGED <<daemon, cfg, gpsVars, acq, hc, ret, loopVars, benchVars>>

InitDrive ==
    /\ now = 0
    /\ daemon = "fix"
    /\ cfg = Config(TRUE, TRUE)
    /\ healthy = TRUE
    /\ last_valid_fix = None
    /\ kf_lat = KalmanTracker_init
    /\ kf_lon = KalmanTracker_init
    /\ gps_cache = None
    /\ acq = AcqIdle
    /\ hc = [pc |-> "absent", future |-> Pending]
    /\ ret = [call |-> "none", val |-> None, raised |-> FALSE]
    /\ sb = SmartBeaconing_init
    /\ sb_out = NoCall
    /\ scn \in {[turn_at |-> k, course |-> c, turn |-> t, fed |-> 0, reported |-> FALSE] :
                  k \in 2..MaxTurnAt, c \in {0, 90, 180, 270}, t \in {90, 270}}
    /\ timer = Timer_init(0)
    /\ reload_event = FALSE
    /\ loop = LoopIdle
    /\ log = <<>>
    /\ proc = ProcRunning
    /\ counter = NoCounter
    /\ gaps = NoGaps
    /\ kf_out = NoKfCall
    /\ aio = NoLoop
    /\ aprs = NoSend

NextDrive == DriveFeed

SpecDrive == InitDrive /\ [][NextDrive]_vars

\* C7 as stated: once the fixes up to min_turn_time seconds after the first
\* fix with the new heading have been fed, at least one call at or after the
\* turn has returned 'report'.
C7_ReportWithinMinTurnTime ==
    scn.fed = scn.turn_at + cfg.smartbeaconing_min_turn_time + 1 => scn.reported

(***************************************************************************)
(* PersistentCounter and the Timer.  The file holds an int, other text or  *)
(* is missing.                                                             *)
(***************************************************************************)
\* variant of TimerModulo that is no multiple of 1200
TimerModulo_odd == 86400 - 1

\* Timer.__init__, line 342
TimerModulo == 86400

\* _load: the value of _count after reading the file
PersistentCounter_load(file, modulo) ==
    IF file.kind = "int"
    THEN (IF file.n >= modulo THEN 0 ELSE file.n)
    ELSE 0

\* variant of the count property without the modulo
PersistentCounter_count_nowrap(count, modulo) == 1 + count

\* the count property: the new _count, which is also the returned value
PersistentCounter_count(count, modulo) == (1 + count) % modulo

\* variant of _save that leaves the file as it was
PersistentCounter_save_never(file, count, ok) == file

\* _save: the file after writing count; a failing write is swallowed and
\* leaves the file as it was
PersistentCounter_save(file, count, ok) == IF ok THEN PyInt(count) ELSE file

(***************************************************************************)
(* The scheduler: process_loop and the functions that choose the tasks.    *)
(* The senders are collaborators: a dispatched sender ends by returning    *)
(* (having sent, or for send_all possibly having sent nothing), by raising *)
(* an exception, or by sys.exit in connect.                                *)
(***************************************************************************)
MaxIter == 2

\* variant of TaskOrder with telemetry listed before the header
TaskOrder_telemetry_first == <<"position", "telemetry", "header", "messages">>

\* _get_tasks, lines 1401-1406: the senders in the order of the list
TaskOrder == <<"position", "header", "telemetry", "messages">>

\* variant of should_send_position that asks the trigger whatever the
\* configuration says
should_send_position_always(c, timer_tick, st, gps_data, t) ==
    LET r == should_send(c, st, gps_data, t)
    IN  [cond |-> r.ret \/ timer_tick % 1200 = 1, sb |-> r.sb, exc |-> r.exc,
         ret |-> r.ret, called |-> TRUE]

\* should_send_position: the condition, the new state of the trigger, the
\* exception that leaves it and whether should_send was called
should_send_position(c, timer_tick, st, gps_data, t) ==
    IF c.gpsd_enabled /\ c.smartbeaconing_enabled
    THEN LET r == should_send(c, st, gps_data, t)
         IN  [cond |-> r.ret \/ timer_tick % 1200 = 1, sb |-> r.sb, exc |-> r.exc,
              ret |-> r.ret, called |-> TRUE]
    ELSE [cond |-> timer_tick % 1200 = 1, sb |-> st, exc |-> "none", ret |-> FALSE,
          called |-> FALSE]

\* Python's a % b for integers: the result has the sign of b; the caller
\* rules out b = 0, for which Python raises ZeroDivisionError
PyMod(a, b) ==
    IF b > 0 THEN a % b
    ELSE IF b < 0 THEN 0 - ((0 - a) % (0 - b))
    ELSE 0

\* line 1404: the exception of timer_tick % cfg.sleep
get_tasks_raises(c) == IF c.sleep = 0 THEN "ZeroDivisionError" ELSE "none"

\* _get_tasks: the conditions of the four tasks, position first
get_tasks(c, timer_tick, position_cond) ==
    <<position_cond, timer_tick % 14400 = 1, PyMod(timer_tick, c.sleep) = 1, TRUE>>

\* the first due task at or after position i of the list, 0 when there is none
FirstDue(conds, i) ==
    IF \E j \in i..Len(conds) : conds[j]
    THEN CHOOSE j \in i..Len(conds) : conds[j] /\ \A k \in i..(j - 1) : ~conds[k]
    ELSE 0

\* how a dispatched sender can end
TaskOutcomes(name) ==
    IF name = "messages" THEN {"sent", "nothing", "raised", "exit"}
    ELSE {"sent", "raised", "exit"}

\* variant of task_sent that counts every end of a task as a transmission
task_sent_always(outcome) == TRUE

\* lines 1426-1429: a task that returns something else than a bool counts as
\* having sent, a bool counts as it says; send_all returns False when no
\* message was due
task_sent(outcome) == outcome = "sent"

\* variant of AfterTask without the except clause of line 1430
AfterTask_uncaught(outcome) ==
    CASE outcome = "exit"   -> "propagate"
      [] outcome = "raised" -> "propagate"
      [] OTHER              -> "continue"

\* lines 1425-1431: what process_loop does with the end of a task
AfterTask(outcome) ==
    CASE outcome = "exit"   -> "propagate"
      [] outcome = "raised" -> "continue"
      [] OTHER              -> "continue"

\* lines 1421-1426 once gps_data is known for the tick: the conditions are
\* evaluated and the first due task is dispatched
AfterPosition(timer_tick, gps_data) ==
    LET p == should_send_position(cfg, timer_tick, sb, gps_data, EpochStart + now)
    IN  /\ sb' = p.sb
        /\ sb_out' = IF p.called
                     THEN [fix |-> gps_data, ret |-> p.ret, exc |-> p.exc,
                           calls |-> (sb_out.calls + 1) % 2]
                     ELSE sb_out
        /\ IF p.exc # "none" \/ get_tasks_raises(cfg) # "none"
           THEN /\ loop' = [loop EXCEPT !.pc = "crashed", !.tick = timer_tick,
                                        !.gps_data = gps_data, !.conds = <<>>, !.idx = 0,
                                        !.packet_sent = FALSE]
                /\ log' = <<>>
           ELSE LET conds == get_tasks(cfg, timer_tick, p.cond)
                    i     == FirstDue(conds, 1)
                IN  /\ loop' = [loop EXCEPT !.pc = "task", !.tick = timer_tick,
                                            !.gps_data = gps_data, !.conds = conds,
                                            !.idx = i, !.packet_sent = FALSE]
                    /\ log' = <<[name |-> TaskOrder[i], out |-> "running"]>>

\* variant of ReloadCheck that never sees the event
ReloadCheck_never(event) == FALSE

\* line 1413: the loop ends when the event is set
ReloadCheck(event) == event

\* lines 1411-1420: the tick scope, the reload check and the call of
\* get_position, up to the first suspension
LoopTop ==
    /\ proc.pc = "running"
    /\ loop.pc = "top"
    /\ loop.iter < MaxIter
    /\ \E ok \in BOOLEAN :
          LET loaded     == PersistentCounter_load(timer.file, TimerModulo)
              timer_tick == PersistentCounter_count(loaded, TimerModulo)
          IN  /\ timer' = [file  |-> PersistentCounter_save(timer.file, timer_tick, ok),
                           count |-> timer_tick]
              /\ proc' = [proc EXCEPT !.last_tick = timer_tick,
                                      !.writes_ok = proc.writes_ok /\ ok]
              /\ IF ReloadCheck(reload_event)
                 THEN /\ loop' = [loop EXCEPT !.pc = "stopped", !.tick = timer_tick]
                      /\ UNCHANGED <<acq, ret, gpsVars, sbVars, log>>
                 ELSE IF cfg.gpsd_enabled
                 THEN /\ AcquireBegin("TPV", "loop")
                      /\ IF acq'.pc = "polling"
                         THEN /\ loop' = [loop EXCEPT !.pc = "await_position",
                                                      !.tick = timer_tick, !.gps_data = None,
                                                      !.conds = <<>>, !.idx = 0,
                                                      !.packet_sent = FALSE]
                              /\ log' = <<>>
                              /\ UNCHANGED sbVars
                         ELSE AfterPosition(timer_tick, ret'.val)
                 ELSE /\ UNCHANGED <<acq, ret, gpsVars>>
                      /\ AfterPosition(timer_tick, None)
    /\ UNCHANGED <<envVars, cfg, hc, scn, reload_event, benchVars>>

\* line 1420 resumes: get_position returns and the tasks are chosen
LoopPositionResume ==
    /\ proc.pc = "running"
    /\ loop.pc = "await_position"
    /\ acq.caller = "loop"
    /\ AcquireResume
    /\ IF ret'.raised
       THEN /\ loop' = [loop EXCEPT !.pc = "crashed"]
            /\ UNCHANGED <<sbVars, log>>
       ELSE AfterPosition(loop.tick, ret'.val)
    /\ UNCHANGED <<envVars, cfg, hc, scn, timer, reload_event, proc, benchVars>>

\* lines 1426-1433: the dispatched sender ends; the next due sender, the
\* trailing status report or the sleep follows
TaskEnd ==
    /\ proc.pc = "running"
    /\ loop.pc = "task"
    /\ \E outcome \in TaskOutcomes(TaskOrder[loop.idx]) :
          LET done == [log EXCEPT ![Len(log)].out = outcome]
              sent == loop.packet_sent \/ task_sent(outcome)
              j    == FirstDue(loop.conds, loop.idx + 1)
          IN  IF AfterTask(outcome) = "propagate"
              THEN /\ loop' = [loop EXCEPT !.pc = IF outcome = "exit" THEN "exited" ELSE "crashed"]
                   /\ log' = done
              ELSE IF j # 0
              THEN /\ loop' = [loop EXCEPT !.idx = j, !.packet_sent = sent]
                   /\ log' = Append(done, [name |-> TaskOrder[j], out |-> "running"])
              ELSE IF sent
              THEN /\ loop' = [loop EXCEPT !.pc = "status", !.idx = 0, !.packet_sent = sent]
                   /\ log' = Append(done, [name |-> "status", out |-> "running"])
              ELSE /\ loop' = [loop EXCEPT !.pc = "sleep", !.idx = 0, !.packet_sent = sent]
                   /\ log' = done
    /\ UNCHANGED <<envVars, cfg, gpsVars, acq, hc, ret, sbVars, scn, timer, reload_event, proc,
                   benchVars>>

\* line 1433: send_status ends; it is awaited outside the try of the tasks
StatusEnd ==
    /\ proc.pc = "running"
    /\ loop.pc = "status"
    /\ \E outcome \in {"sent", "nothing", "raised", "exit"} :
          /\ loop' = [loop EXCEPT !.pc = CASE outcome = "raised" -> "crashed"
                                           [] outcome = "exit"   -> "exited"
                                           [] OTHER              -> "sleep"]
          /\ log' = [log EXCEPT ![Len(log)].out = outcome]
    /\ UNCHANGED <<envVars, cfg, gpsVars, acq, hc, ret, sbVars, scn, timer, reload_event, proc,
                   benchVars>>

\* line 1434: the sleep ends and the next iteration starts; an iteration
\* takes one second of the clock of the model
LoopSleepEnd ==
    /\ proc.pc = "running"
    /\ loop.pc = "sleep"
    /\ loop' = [loop EXCEPT !.pc = "top", !.iter = loop.iter + 1]
    /\ now' = now + 1
    /\ UNCHANGED <<daemon, cfg, gpsVars, acq, hc, ret, sbVars, scn, timer, reload_event, log, proc,
                   benchVars>>

\* the signal handler of SIGHUP sets the event
SetReload ==
    /\ proc.pc # "ended"
    /\ ~reload_event
    /\ reload_event' = TRUE
    /\ UNCHANGED <<envVars, cfg, gpsVars, acq, hc, ret, sbVars, scn, timer, loop, log, proc,
                   benchVars>>

\* C17: an iteration during which the event is set goes on as without it:
\* after a task that returned or raised, the next due task is dispatched,
\* after the last one the status report if something was sent, else the
\* sleep; the loop ends at the check at the top of the next iteration
\* without dispatching anything, and nothing is dispatched after that.
C17_ReloadCooperative ==
    [][/\ (reload_event /\ loop.pc = "top" /\ loop' # loop) =>
             (loop'.pc = "stopped" /\ log' = log)
       /\ (reload_event /\ loop.pc = "task" /\ loop' # loop /\
           log'[Len(log)].out \in {"sent", "nothing", "raised"}) =>
             LET j == FirstDue(loop.conds, loop.idx + 1)
             IN  IF j # 0
                 THEN /\ loop'.pc = "task"
                      /\ log'[Len(log')] = [name |-> TaskOrder[j], out |-> "running"]
                 ELSE IF loop'.packet_sent
                 THEN /\ loop'.pc = "status"
                      /\ log'[Len(log')] = [name |-> "status", out |-> "running"]
                 ELSE loop'.pc = "sleep"
       /\ (reload_event /\ loop.pc \in {"status", "sleep", "await_position"}) =>
             loop'.pc # "stopped"
       /\ loop.pc = "stopped" => (loop' = loop /\ log' = log)
      ]_vars

\* the event was set while an iteration was under way, and the loop has
\* ended at the top of the next iteration, after the status report of that
\* iteration was sent
C17_Witness ==
    /\ reload_event
    /\ loop.pc = "stopped"
    /\ loop.iter = 1
    /\ Len(log) >= 2
    /\ log[Len(log)] = [name |-> "status", out |-> "sent"]

\* C18: an iteration dispatches at most one status report, and it has
\* dispatched one when its tasks are done exactly if one of its tasks has
\* ended having sent.
C18_StatusIffSent ==
    LET statuses == {k \in 1..Len(log) : log[k].name = "status"}
        some_sent == \E k \in 1..Len(log) : log[k].name # "status" /\ log[k].out = "sent"
    IN  /\ Cardinality(statuses) <= 1
        /\ statuses # {} => some_sent
        /\ loop.pc = "status" => statuses # {}
        /\ loop.pc = "sleep" => (statuses # {} <=> some_sent)

\* position, header and telemetry raised, no scheduled message was due, and
\* the iteration sleeps without a status report
C18_Witness ==
    /\ loop.pc = "sleep"
    /\ Len(log) = 4
    /\ \A k \in 1..3 : log[k].out = "raised"
    /\ log[4] = [name |-> "messages", out |-> "nothing"]

(***************************************************************************)
(* The process around the loop: connect, main and the __main__ block.      *)
(* These sessions run without GPSD, so that initialize_session does not    *)
(* call get_position.                                                      *)
(***************************************************************************)
MaxSessions == 2

\* connect, line 1201
max_retries == 5

\* os.EX_NOHOST where the platform defines it
EX_NOHOST == 68

\* line 1215: the argument of sys.exit
connect_exit_status(has_EX_NOHOST) == IF has_EX_NOHOST THEN EX_NOHOST ELSE 1

\* connect, lines 1196-1215, against a server that answers the first errors
\* attempts with a connection error: it returns once an attempt succeeds and
\* calls sys.exit after max_retries errors
connect(errors, has_EX_NOHOST) ==
    IF errors < max_retries
    THEN [kind |-> "returned", attempts |-> errors + 1, code |-> NoExit]
    ELSE [kind |-> "SystemExit", attempts |-> max_retries,
          code |-> connect_exit_status(has_EX_NOHOST)]

\* the __main__ block, lines 1465-1478: the exit status of the process when
\* asyncio.run(main()) ended as ended says.  exit_code starts as 0 and only
\* the except clause of Exception changes it; the finally clause calls
\* sys.exit(exit_code), whose SystemExit replaces an exception in flight
main_exit_code(ended) ==
    LET exit_code == IF ended.kind = "Exception" THEN 1 ELSE 0
    IN  exit_code

\* the tick file does not exist
NoFile == [kind |-> "missing"]

\* main, lines 1443-1445, with initialize_session: the event is cleared, the
\* sender connects and the session gets a new Timer and a new trigger
SessionStart ==
    /\ proc.pc = "init"
    /\ proc.sessions < MaxSessions
    /\ ~cfg.gpsd_enabled
    /\ \E errors \in 0..max_retries, has_EX_NOHOST \in BOOLEAN :
          LET c == connect(errors, has_EX_NOHOST)
          IN  /\ loop' = [LoopIdle EXCEPT !.pc = IF c.kind = "returned" THEN "top" ELSE "exited"]
              /\ proc' = [proc EXCEPT !.pc = "running", !.exit_code = c.code,
                                      !.sessions = proc.sessions + 1]
    /\ reload_event' = FALSE
    /\ timer' = Timer_init(timer.file)
    /\ sb' = SmartBeaconing_init
    /\ log' = <<>>
    /\ UNCHANGED <<envVars, cfg, gpsVars, acq, hc, ret, sb_out, scn, benchVars>>

\* main, lines 1450-1461, after process_loop has returned: with the event
\* set the next session starts, without it main returns
SessionEnd ==
    /\ proc.pc = "running"
    /\ loop.pc = "stopped"
    /\ proc' = IF reload_event
               THEN [proc EXCEPT !.pc = "init"]
               ELSE [proc EXCEPT !.pc = "ended", !.cause = "returned",
                                 !.exit_code = main_exit_code([kind |-> "returned"])]
    /\ UNCHANGED <<envVars, cfg, gpsVars, acq, hc, ret, sbVars, scn, timer, reload_event, loop,
                   log, benchVars>>

\* the __main__ block when an exception or the SystemExit of connect leaves
\* asyncio.run
ProcessEnd ==
    /\ proc.pc = "running"
    /\ loop.pc \in {"crashed", "exited"}
    /\ \E has_EX_NOHOST \in BOOLEAN :
          LET ended == IF loop.pc = "crashed"
                       THEN [kind |-> "Exception", code |-> NoExit]
                       ELSE [kind |-> "SystemExit",
                             code |-> IF proc.exit_code # NoExit THEN proc.exit_code
                                      ELSE connect_exit_status(has_EX_NOHOST)]
          IN  proc' = [proc EXCEPT !.pc = "ended",
                                   !.cause = IF loop.pc = "crashed" THEN "exception" ELSE "connect",
                                   !.exit_code = main_exit_code(ended)]
    /\ UNCHANGED <<envVars, cfg, gpsVars, acq, hc, ret, sbVars, scn, timer, reload_event, loop,
                   log, benchVars>>

\* SIGINT while the loop runs: asyncio.run raises KeyboardInterrupt, which
\* the __main__ block catches
KeyboardInterrupt ==
    /\ proc.pc = "running"
    /\ loop.pc \in {"top", "task", "status", "sleep"}
    /\ proc' = [proc EXCEPT !.pc = "ended", !.cause = "interrupt",
                            !.exit_code = main_exit_code([kind |-> "KeyboardInterrupt"])]
    /\ UNCHANGED <<envVars, cfg, gpsVars, acq, hc, ret, sbVars, scn, timer, reload_event, loop,
                   log, benchVars>>

\* the supervisor starts the program again; only the files are kept
ProcessStart ==
    /\ proc.pc = "ended"
    /\ proc' = [proc EXCEPT !.pc = "init", !.cause = "none", !.exit_code = NoExit]
    /\ reload_event' = FALSE
    /\ UNCHANGED <<envVars, cfg, gpsVars, acq, hc, ret, sbVars, scn, timer, loop, log, benchVars>>

\* tick files of a first start and of a start late in the day of ticks
RestartFiles == {NoFile, PyInt(TimerModulo - 2)}

InitRestart ==
    /\ now = 0
    /\ daemon = "down"
    /\ cfg = Config(FALSE, FALSE)
    /\ healthy = TRUE
    /\ last_valid_fix = None
    /\ kf_lat = KalmanTracker_init
    /\ kf_lon = KalmanTracker_init
    /\ gps_cache = None
    /\ acq = AcqIdle
    /\ hc = [pc |-> "absent", future |-> Pending]
    /\ ret = [call |-> "none", val |-> None, raised |-> FALSE]
    /\ sb = SmartBeaconing_init
    /\ sb_out = NoCall
    /\ scn = NoScenario
    /\ timer \in {Timer_init(f) : f \in RestartFiles}
    /\ reload_event = FALSE
    /\ loop = LoopIdle
    /\ log = <<>>
    /\ proc = [ProcRunning EXCEPT !.pc = "init", !.sessions = 0,
                                  !.last_tick = IF timer.file.kind = "int" THEN timer.file.n
                                                ELSE NoTick]
    /\ counter = NoCounter
    /\ gaps = NoGaps
    /\ kf_out = NoKfCall
    /\ aio = NoLoop
    /\ aprs = NoSend

NextRestart ==
    \/ SessionStart
    \/ LoopTop
    \/ TaskEnd
    \/ StatusEnd
    \/ LoopSleepEnd
    \/ SetReload
    \/ SessionEnd
    \/ ProcessEnd
    \/ KeyboardInterrupt
    \/ ProcessStart

SpecRestart == InitRestart /\ [][NextRestart]_vars

\* the tick files the sessions of the model start with
TimerFiles == {PyInt(0), PyInt(19)}

InitLoop ==
    /\ now = 0
    /\ daemon \in {"down", "fix"}
    /\ cfg \in {Config(TRUE, TRUE), Config(FALSE, FALSE)}
    /\ healthy = TRUE
    /\ last_valid_fix = None
    /\ kf_lat = KalmanTracker_init
    /\ kf_lon = KalmanTracker_init
    /\ gps_cache = None
    /\ acq = AcqIdle
    /\ hc = [pc |-> IF cfg.gpsd_enabled THEN "created" ELSE "absent", future |-> Pending]
    /\ ret = [call |-> "none", val |-> None, raised |-> FALSE]
    /\ sb = SmartBeaconing_init
    /\ sb_out = NoCall
    /\ scn = NoScenario
    /\ timer \in {Timer_init(f) : f \in TimerFiles}
    /\ reload_event = FALSE
    /\ loop = LoopIdle
    /\ log = <<>>
    /\ proc = ProcRunning
    /\ counter = NoCounter
    /\ gaps = NoGaps
    /\ kf_out = NoKfCall
    /\ aio = NoLoop
    /\ aprs = NoSend

NextLoop ==
    \/ LoopTop
    \/ LoopPositionResume
    \/ TaskEnd
    \/ StatusEnd
    \/ LoopSleepEnd
    \/ SetReload
    \/ WorkerDone
    \/ HealthCheckStart
    \/ HealthWorkerDone
    \/ HealthCheckResume
    \/ HealthCheckWake
    \/ DaemonChange

SpecLoop == InitLoop /\ [][NextLoop]_vars

(***************************************************************************)
(* Properties of the scheduler.                                            *)
(***************************************************************************)
\* the place of a report in the order position, header, telemetry, scheduled
\* messages, status
Rank(name) ==
    CASE name = "position"  -> 1
      [] name = "header"    -> 2
      [] name = "telemetry" -> 3
      [] name = "messages"  -> 4
      [] name = "status"    -> 5

\* C8: the reports dispatched in an iteration appear in the order position,
\* header, telemetry, scheduled messages, status; a report is dispatched only
\* when every report dispatched before it in the iteration has ended.
C8_DispatchOrder ==
    \A i \in 1..Len(log) : \A j \in 1..Len(log) :
        i < j => (Rank(log[i].name) < Rank(log[j].name) /\ log[i].out # "running")

\* an iteration has dispatched position, header, telemetry, scheduled
\* messages and the status report
C8_Witness ==
    /\ Len(log) = 5
    /\ log[1].name = "position"
    /\ log[5].name = "status"
    /\ log[5].out = "running"

\* C9: when a dispatched task ends with an exception, the loop does not
\* end: the next due task of the iteration is dispatched or, after the last
\* one, the status report or the sleep follows; and an iteration that has
\* come to its status report or its sleep has dispatched every due task.
C9_TaskExceptionContained ==
    [][/\ (loop.pc = "task" /\ loop' # loop /\ log'[Len(log)].out = "raised") =>
            LET j == FirstDue(loop.conds, loop.idx + 1)
            IN  IF j # 0
                THEN /\ loop'.pc = "task"
                     /\ log'[Len(log')] = [name |-> TaskOrder[j], out |-> "running"]
                ELSE loop'.pc \in {"status", "sleep"}
       /\ (loop'.pc \in {"status", "sleep"}) =>
            \A k \in 1..4 : loop'.conds[k] => TaskOrder[k] \in {log'[n].name : n \in 1..Len(log')}
      ]_vars

\* the position report raised, the three tasks after it were dispatched and
\* the loop has reached its sleep
C9_Witness ==
    /\ loop.pc = "sleep"
    /\ Len(log) = 4
    /\ log[1] = [name |-> "position", out |-> "raised"]
    /\ log[4].name = "messages"

\* C10 as stated: process_loop ends only by the reload check at the top of
\* an iteration or by the exit of the process in connect; no exception ends
\* it.
C10_OnlyReloadOrExitStops == loop.pc # "crashed"

(***************************************************************************)
(* Properties of the process and of the tick across sessions.              *)
(***************************************************************************)
\* C11 as stated: when connect has used up its attempts, the process ends
\* with an exit status that is neither 0, the status of a clean stop, nor 1,
\* the status of an unexpected exception.
C11_DistinctExitStatus ==
    (proc.pc = "ended" /\ proc.cause = "connect") => (proc.exit_code # 0 /\ proc.exit_code # 1)

\* C12: as long as every write of the tick file has succeeded, the tick an
\* iteration reads is the tick of the tick scope completed before it plus one
\* modulo 86400, whatever reloads, interrupts and restarts lie between the
\* two, and it is 1 when no scope has completed and the file is missing.
C12_TickContinuity ==
    [][(proc.pc = "running" /\ loop.pc = "top" /\ loop'.pc # "top" /\ proc.writes_ok) =>
          loop'.tick = IF proc.last_tick = NoTick THEN 1 ELSE (proc.last_tick + 1) % 86400
      ]_vars

\* the second session has read tick 0 after the first one read 86399
C12_Witness ==
    /\ proc.sessions = 2
    /\ proc.writes_ok
    /\ proc.last_tick = 0
    /\ loop.tick = 0
    /\ loop.pc = "task"

(***************************************************************************)
(* A PersistentCounter used through its scope, as send_telemetry and       *)
(* process_loop use it: __enter__, the count property a number of times,   *)
(* the end of the body (possibly by an exception) and __exit__.            *)
(***************************************************************************)
MaxCalls == 3

\* lines 268-269: what open and int(fds.readline()) raise for the file
load_raises(file) ==
    CASE file.kind = "missing"    -> "IOError"
      [] file.kind = "unreadable" -> "IOError"
      [] file.kind = "str"        -> "ValueError"
      [] OTHER                    -> "none"

\* variant of load_caught without ValueError
load_caught_io_only == {"IOError"}

\* line 272: the exceptions _load catches
load_caught == {"IOError", "ValueError"}

\* __enter__, lines 282-284: _count after _load and the exception that
\* leaves __enter__
PersistentCounter_enter(file, count, modulo) ==
    LET e == load_raises(file)
    IN  IF e = "none" THEN [count |-> PersistentCounter_load(file, modulo), exc |-> "none"]
        ELSE IF e \in load_caught THEN [count |-> 0, exc |-> "none"]
        ELSE [count |-> count, exc |-> e]

\* variant of exit_saves that skips _save after an exception of the body
exit_saves_on_success(body_raised) == ~body_raised

\* __exit__, lines 286-287: _save is called whatever exc_type is
exit_saves(body_raised) == TRUE

\* line 279: the exceptions _save catches
save_caught == {"IOError"}

\* __exit__ returns None, so an exception of the body is not suppressed
exit_suppresses == FALSE

\* the contents of the file before the scope: missing, unreadable, text that
\* int() rejects, and integers below, in and above the range of the counter
CounterFiles(modulo) ==
    {NoFile, [kind |-> "unreadable"], PyStr("abc")} \cup
    {PyInt(n) : n \in {0 - 5, 0, 1, modulo - 2, modulo - 1, modulo, modulo + 7}}

\* the modulo of Sequence by default, of the telemetry sequence and of Timer
CounterModulos == {100, 1000, TimerModulo}

\* PersistentCounter.__init__ over a file
PersistentCounter_init(file, modulo) ==
    [NoCounter EXCEPT !.pc = "outside", !.file = file, !.stored = file, !.modulo = modulo]

\* with counter: the scope is entered
CounterEnter ==
    /\ counter.pc = "outside"
    /\ LET r == PersistentCounter_enter(counter.file, counter.count, counter.modulo)
       IN  counter' = [counter EXCEPT !.pc = IF r.exc = "none" THEN "inside" ELSE "enter_raised",
                                      !.count = r.count, !.loaded = r.count]
    /\ UNCHANGED <<envVars, cfg, gpsVars, acq, hc, ret, sbVars, scn, loopVars, gaps, kf_out, aio, aprs>>

\* counter.count inside the scope
CounterNext ==
    /\ counter.pc = "inside"
    /\ counter.calls < MaxCalls
    /\ LET c == PersistentCounter_count(counter.count, counter.modulo)
       IN  counter' = [counter EXCEPT !.count = c, !.returned = c, !.calls = counter.calls + 1]
    /\ UNCHANGED <<envVars, cfg, gpsVars, acq, hc, ret, sbVars, scn, loopVars, gaps, kf_out, aio, aprs>>

\* the body ends, normally or by an exception, and __exit__ runs; the write
\* of _save succeeds or fails with an IOError
CounterExit ==
    /\ counter.pc = "inside"
    /\ \E body_raised \in BOOLEAN, ok \in BOOLEAN :
          LET saves == exit_saves(body_raised)
          IN  counter' = [counter EXCEPT
                  !.pc = "released",
                  !.body_raised = body_raised,
                  !.saved = saves,
                  !.write_ok = saves /\ ok,
                  !.file = IF saves
                           THEN PersistentCounter_save(counter.file, counter.count, ok)
                           ELSE counter.file,
                  !.release_raised = saves /\ ~ok /\ "IOError" \notin save_caught,
                  !.propagated = body_raised /\ ~exit_suppresses]
    /\ UNCHANGED <<envVars, cfg, gpsVars, acq, hc, ret, sbVars, scn, loopVars, gaps, kf_out, aio, aprs>>

InitCounter ==
    /\ now = 0
    /\ daemon = "down"
    /\ cfg = Config(FALSE, FALSE)
    /\ healthy = TRUE
    /\ last_valid_fix = None
    /\ kf_lat = KalmanTracker_init
    /\ kf_lon = KalmanTracker_init
    /\ gps_cache = None
    /\ acq = AcqIdle
    /\ hc = [pc |-> "absent", future |-> Pending]
    /\ ret = [call |-> "none", val |-> None, raised |-> FALSE]
    /\ sb = SmartBeaconing_init
    /\ sb_out = NoCall
    /\ scn = NoScenario
    /\ timer = Timer_init(0)
    /\ reload_event = FALSE
    /\ loop = LoopIdle
    /\ log = <<>>
    /\ proc = ProcRunning
    /\ counter \in UNION {{PersistentCounter_init(f, m) : f \in CounterFiles(m)} :
                              m \in CounterModulos}
    /\ gaps = NoGaps
    /\ kf_out = NoKfCall
    /\ aio = NoLoop
    /\ aprs = NoSend

NextCounter ==
    \/ CounterEnter
    \/ CounterNext
    \/ CounterExit

SpecCounter == InitCounter /\ [][NextCounter]_vars

(***************************************************************************)
(* Properties of the counter scope.                                        *)
(***************************************************************************)
\* C13 as stated: whatever the file held, the value in memory after loading
\* and after every call of count, and every value written back at the end
\* of the scope, lie in 0 .. modulo - 1.
C13_CountInRange ==
    /\ counter.pc \in {"inside", "released"} => counter.count \in 0..(counter.modulo - 1)
    /\ (counter.pc = "released" /\ counter.write_ok) =>
           (counter.file.kind = "int" /\ counter.file.n \in 0..(counter.modulo - 1))

C15_BadStorageLoadsZero ==
    counter.stored.kind \in {"missing", "unreadable", "str"} =>
        /\ counter.pc # "enter_raised"
        /\ counter.pc \in {"inside", "released"} => counter.loaded = 0
        /\ counter.calls = 1 => counter.returned = 1

\* over text that is no integer the scope was entered and count returned 1
C15_Witness ==
    /\ counter.stored.kind = "str"
    /\ counter.pc = "inside"
    /\ counter.loaded = 0
    /\ counter.calls = 1
    /\ counter.returned = 1

\* C16: the end of a scope calls _save with the value in memory, also after
\* an exception of the body: a successful write leaves that value in the
\* file, a failing write raises nothing, and the exception of the body goes
\* on to the caller.
C16_ReleaseAlwaysSaves ==
    counter.pc = "released" =>
        /\ counter.saved
        /\ counter.write_ok => counter.file = PyInt(counter.count)
        /\ ~counter.release_raised
        /\ counter.propagated <=> counter.body_raised

\* the body raised after a call of count, the value was written and the
\* exception went on
C16_Witness ==
    /\ counter.pc = "released"
    /\ counter.body_raised
    /\ counter.calls = 1
    /\ counter.write_ok
    /\ counter.file = PyInt(counter.count)
    /\ counter.propagated

(***************************************************************************)
(* The conditions of the tasks along the ticks: the tick scope of line     *)
(* 1411 and the conditions of _get_tasks, tick after tick, with GPSD and   *)
(* SmartBeaconing disabled and a tick file that is written every time.     *)
(***************************************************************************)
\* values of SLEEP that _env_get_int accepts: the default, a number that
\* does not divide 86400, one and zero
SleepSettings == {600, 7, 1, 0}

\* tick files at the start of the walk
WalkFiles == {NoFile, PyInt(5)}

\* one more tick for a task: its condition held on this tick or not
GapStep(g, due) ==
    [since    |-> IF due THEN 0 ELSE Min(g.since + 1, TimerModulo),
     seen     |-> g.seen \/ due,
     last_gap |-> IF due /\ g.seen THEN g.since + 1 ELSE g.last_gap,
     due      |-> due]

\* lines 1411-1412 and 1422 of one iteration: the tick and the conditions
TickWalk ==
    /\ gaps.exc = "none"
    /\ LET loaded     == PersistentCounter_load(timer.file, TimerModulo)
           timer_tick == PersistentCounter_count(loaded, TimerModulo)
           p          == should_send_position(cfg, timer_tick, sb, None, EpochStart)
       IN  /\ timer' = [file  |-> PersistentCounter_save(timer.file, timer_tick, TRUE),
                        count |-> timer_tick]
           /\ IF get_tasks_raises(cfg) # "none"
              THEN gaps' = [gaps EXCEPT !.walked = 1, !.tick = timer_tick,
                                        !.exc = get_tasks_raises(cfg)]
              ELSE LET conds == get_tasks(cfg, timer_tick, p.cond)
                   IN  gaps' = [walked |-> IF gaps.walked < TimerModulo THEN gaps.walked + 1
                                           ELSE gaps.walked,
                                tick   |-> timer_tick,
                                pos    |-> GapStep(gaps.pos, conds[1]),
                                hdr    |-> GapStep(gaps.hdr, conds[2]),
                                tel    |-> GapStep(gaps.tel, conds[3]),
                                exc    |-> "none"]
    /\ UNCHANGED <<envVars, cfg, gpsVars, acq, hc, ret, sbVars, scn, reload_event, loop, log, proc,
                   counter, kf_out, aio, aprs>>

InitTicks ==
    /\ now = 0
    /\ daemon = "down"
    /\ cfg \in {[Config(FALSE, FALSE) EXCEPT !.sleep = n] : n \in SleepSettings}
    /\ healthy = TRUE
    /\ last_valid_fix = None
    /\ kf_lat = KalmanTracker_init
    /\ kf_lon = KalmanTracker_init
    /\ gps_cache = None
    /\ acq = AcqIdle
    /\ hc = [pc |-> "absent", future |-> Pending]
    /\ ret = [call |-> "none", val |-> None, raised |-> FALSE]
    /\ sb = SmartBeaconing_init
    /\ sb_out = NoCall
    /\ scn = NoScenario
    /\ timer \in {Timer_init(f) : f \in WalkFiles}
    /\ reload_event = FALSE
    /\ loop = LoopIdle
    /\ log = <<>>
    /\ proc = ProcRunning
    /\ counter = NoCounter
    /\ gaps = NoGaps
    /\ kf_out = NoKfCall
    /\ aio = NoLoop
    /\ aprs = NoSend

NextTicks == TickWalk

SpecTicks == InitTicks /\ [][NextTicks]_vars

\* a condition held on exactly one tick of every n consecutive ticks walked
\* so far: no n ticks in a row without it, and n ticks from one to the next
OncePer(g, n) ==
    /\ g.since <= n - 1
    /\ g.last_gap \in {0, n}

\* C19: along the ticks, across the wrap from 86399 to 0, the condition of
\* the position report (GPSD and SmartBeaconing disabled) holds exactly on
\* the ticks with tick mod 1200 = 1 and on one tick of every 1200 in a row,
\* and that of the header on one tick of every 14400 in a row.
C19_PositionHeaderPeriod ==
    (gaps.walked > 0 /\ gaps.exc = "none") =>
        /\ gaps.pos.due <=> gaps.tick % 1200 = 1
        /\ gaps.hdr.due <=> gaps.tick % 14400 = 1
        /\ OncePer(gaps.pos, 1200)
        /\ OncePer(gaps.hdr, 14400)

\* the walk has passed the wrap and has come to tick 1, 1200 ticks after the
\* last position report and 14400 ticks after the last header
C19_Witness ==
    /\ gaps.tick = 1
    /\ gaps.walked = TimerModulo
    /\ gaps.pos.due /\ gaps.pos.last_gap = 1200
    /\ gaps.hdr.due /\ gaps.hdr.last_gap = 14400

\* C20 as stated: for every accepted value N of SLEEP, the condition of the
\* telemetry report is evaluated without an exception and holds on exactly
\* one tick of every N ticks in a row, across the wrap at 86400 too.
C20_TelemetryPeriod ==
    gaps.walked > 0 =>
        /\ gaps.exc = "none"
        /\ OncePer(gaps.tel, cfg.sleep)

(***************************************************************************)
(* A KalmanTracker used on its own: update and predict with positions,     *)
(* velocities and timestamps in any order.                                 *)
(***************************************************************************)
MaxKfTime == 6

MaxKfCalls == 2

\* measured positions and velocities, fixed-point
KfPositions == {10 * FP, 13 * FP}

KfVelocities == {2 * FP, 0 - FP}

\* kf.update(pos, vel, t)
KalmanUpdate ==
    /\ kf_out.calls < MaxKfCalls
    /\ \E pos \in KfPositions, vel \in KfVelocities, t \in 0..MaxKfTime :
          LET r == update(kf_lat, pos, vel, t)
          IN  /\ kf_lat' = r.kf
              /\ kf_out' = [op |-> "update", pos |-> pos, vel |-> vel, t |-> t,
                            before |-> kf_lat, ret_pos |-> r.pos, ret_vel |-> r.vel,
                            calls |-> kf_out.calls + 1]
    /\ UNCHANGED <<envVars, cfg, healthy, last_valid_fix, kf_lon, gps_cache, acq, hc, ret, sbVars,
                   scn, loopVars, counter, gaps, aio, aprs>>

\* kf.predict(t): the filter has no assignment in predict
KalmanPredict ==
    /\ \E t \in 0..MaxKfTime :
          LET r == predict(kf_lat, t)
          IN  kf_out' = [op |-> "predict", pos |-> 0, vel |-> 0, t |-> t,
                         before |-> kf_lat, ret_pos |-> r.pos, ret_vel |-> r.vel,
                         calls |-> kf_out.calls]
    /\ UNCHANGED <<envVars, cfg, gpsVars, acq, hc, ret, sbVars, scn, loopVars, counter, gaps, aio, aprs>>

InitKalman ==
    /\ now = 0
    /\ daemon = "down"
    /\ cfg = Config(FALSE, FALSE)
    /\ healthy = TRUE
    /\ last_valid_fix = None
    /\ kf_lat = KalmanTracker_init
    /\ kf_lon = KalmanTracker_init
    /\ gps_cache = None
    /\ acq = AcqIdle
    /\ hc = [pc |-> "absent", future |-> Pending]
    /\ ret = [call |-> "none", val |-> None, raised |-> FALSE]
    /\ InitRest

NextKalman ==
    \/ KalmanUpdate
    \/ KalmanPredict

SpecKalman == InitKalman /\ [][NextKalman]_vars

(***************************************************************************)
(* Properties of the filter.                                               *)
(***************************************************************************)
\* C21: the first update of a fresh filter returns the measured position
\* and velocity as they are and leaves x, v and last_time set to them and to
\* the timestamp, with the covariance as __init__ set it.
C21_FirstUpdateIdentity ==
    (kf_out.op = "update" /\ kf_out.before = KalmanTracker_init) =>
        /\ kf_out.ret_pos = kf_out.pos
        /\ kf_out.ret_vel = kf_out.vel
        /\ kf_lat = [KalmanTracker_init EXCEPT !.x = kf_out.pos, !.v = kf_out.vel,
                                               !.last_time = kf_out.t]

\* a fresh filter has been updated with position 10 and velocity 2
C21_Witness ==
    /\ kf_out.op = "update"
    /\ kf_out.before = KalmanTracker_init
    /\ kf_out.pos = 10 * FP
    /\ kf_out.vel = 2 * FP
    /\ kf_lat.x = 10 * FP

\* C22: an update of an initialized filter with a timestamp that is not
\* later than last_time returns the current x and v and changes no field of
\* the filter; last_time changes only in an update with a later timestamp,
\* and never in predict.
C22_StaleUpdateChangesNothing ==
    /\ (kf_out.op = "update" /\ kf_out.before.last_time # NoTime /\
        kf_out.t <= kf_out.before.last_time) =>
            /\ kf_lat = kf_out.before
            /\ kf_out.ret_pos = kf_out.before.x
            /\ kf_out.ret_vel = kf_out.before.v
    /\ (kf_out.op # "none" /\ kf_out.before.last_time # NoTime /\
        kf_lat.last_time # kf_out.before.last_time) =>
            (kf_out.op = "update" /\ kf_out.t > kf_out.before.last_time)

\* an initialized filter was updated with another position and the
\* timestamp of its last update
C22_Witness ==
    /\ kf_out.op = "update"
    /\ kf_out.before.last_time = 5
    /\ kf_out.t = 5
    /\ kf_out.pos # kf_out.before.x
    /\ kf_out.vel # kf_out.before.v

\* C23: predict of an initialized filter returns x + v * (t - last_time)
\* and v of the stored state and changes no field of the filter, so that a
\* second predict starts from the same state; with x = 10 and v = 2 at t0 it
\* returns position 20 for t0 + 5.
C23_PredictExtrapolates ==
    (kf_out.op = "predict" /\ kf_out.before.last_time # NoTime) =>
        /\ kf_out.ret_pos = kf_out.before.x + kf_out.before.v * (kf_out.t - kf_out.before.last_time)
        /\ kf_out.ret_vel = kf_out.before.v
        /\ kf_lat = kf_out.before
        /\ (kf_out.before.x = 10 * FP /\ kf_out.before.v = 2 * FP /\
            kf_out.t = kf_out.before.last_time + 5) => kf_out.ret_pos = 20 * FP

\* after one update with x = 10 and v = 2 at time 1, predict for time 6 has
\* returned 20
C23_Witness ==
    /\ kf_out.op = "predict"
    /\ kf_out.calls = 1
    /\ kf_out.before.x = 10 * FP
    /\ kf_out.before.v = 2 * FP
    /\ kf_out.before.last_time = 1
    /\ kf_out.t = 6
    /\ kf_out.ret_pos = 20 * FP

(***************************************************************************)
(* _calculate_rate and _check_turn of the trigger, called with numeric     *)
(* speeds in whole km/h.                                                   *)
(***************************************************************************)
MaxSpeedKmh == 120

\* the defaults, and a setting whose speed range does not divide its rates
TriggerConfigs ==
    {Config(TRUE, TRUE),
     [Config(TRUE, TRUE) EXCEPT !.smartbeaconing_slow_speed = 5,
                                !.smartbeaconing_fast_speed = 12,
                                !.smartbeaconing_slow_rate = 100,
                                !.smartbeaconing_fast_rate = 10]}

\* courses in degrees, as get_position returns them
Courses == {0, 10, 90, 170, 180, 200, 350, 359}

\* sb._calculate_rate(spd_kmh); neither method changes the trigger, so one
\* call per behaviour shows every result
CallCalculateRate ==
    /\ sb_out.op = "none"
    /\ \E spd_kmh \in 0..MaxSpeedKmh :
          sb_out' = [op |-> "calculate_rate", spd_kmh |-> spd_kmh, cse |-> 0,
                     rate |-> calculate_rate(cfg, spd_kmh), detected |-> FALSE,
                     heading_change |-> 0]
    /\ UNCHANGED <<envVars, cfg, gpsVars, acq, hc, ret, sb, scn, loopVars, benchVars>>

\* sb._check_turn(cse, spd_kmh); below 5 km/h no heading change is computed
CallCheckTurn ==
    /\ sb_out.op = "none"
    /\ \E cse \in Courses, spd_kmh \in 0..MaxSpeedKmh :
          sb_out' = [op |-> "check_turn", spd_kmh |-> spd_kmh, cse |-> cse, rate |-> 0,
                     detected |-> check_turn(cfg, sb.last_course, cse, spd_kmh),
                     heading_change |-> IF spd_kmh < 5 THEN 0
                                        ELSE heading_change(sb.last_course, cse)]
    /\ UNCHANGED <<envVars, cfg, gpsVars, acq, hc, ret, sb, scn, loopVars, benchVars>>

InitTrigger ==
    /\ now = 0
    /\ daemon = "fix"
    /\ cfg \in TriggerConfigs
    /\ healthy = TRUE
    /\ last_valid_fix = None
    /\ kf_lat = KalmanTracker_init
    /\ kf_lon = KalmanTracker_init
    /\ gps_cache = None
    /\ acq = AcqIdle
    /\ hc = [pc |-> "absent", future |-> Pending]
    /\ ret = [call |-> "none", val |-> None, raised |-> FALSE]
    /\ sb \in {[SmartBeaconing_init EXCEPT !.last_course = c] : c \in Courses}
    /\ sb_out = [op |-> "none", spd_kmh |-> 0, cse |-> 0, rate |-> 0, detected |-> FALSE,
                 heading_change |-> 0]
    /\ scn = NoScenario
    /\ timer = Timer_init(0)
    /\ reload_event = FALSE
    /\ loop = LoopIdle
    /\ log = <<>>
    /\ proc = ProcRunning
    /\ counter = NoCounter
    /\ gaps = NoGaps
    /\ kf_out = NoKfCall
    /\ aio = NoLoop
    /\ aprs = NoSend

NextTrigger ==
    \/ CallCalculateRate
    \/ CallCheckTurn

SpecTrigger == InitTrigger /\ [][NextTrigger]_vars

C25_RateInterpolation ==
    sb_out.op = "calculate_rate" =>
        LET s     == sb_out.spd_kmh
            slow  == cfg.smartbeaconing_slow_speed
            fast  == cfg.smartbeaconing_fast_speed
            slowr == cfg.smartbeaconing_slow_rate
            fastr == cfg.smartbeaconing_fast_rate
        IN  /\ s <= slow => sb_out.rate = slowr
            /\ s >= fast => sb_out.rate = fastr
            /\ (slow < s /\ s < fast) =>
                  sb_out.rate = (slowr * (fast - slow) - (s - slow) * (slowr - fastr))
                                    \div (fast - slow)
            /\ cfg = Config(TRUE, TRUE) =>
                  /\ s = 10 => sb_out.rate = 600
                  /\ s = 50 => sb_out.rate = 360
                  /\ s = 100 => sb_out.rate = 60
            /\ calculate_rate(cfg, s + 1) <= sb_out.rate

\* the rate for 50 km/h under the defaults was computed as 360
C25_Witness ==
    /\ sb_out.op = "calculate_rate"
    /\ cfg = Config(TRUE, TRUE)
    /\ sb_out.spd_kmh = 50
    /\ sb_out.rate = 360

\* C26 as stated: at speeds of at most 5 km/h no turn is detected whatever
\* the heading change; above 5 km/h a turn is detected exactly when the
\* heading change exceeds min_turn_angle + turn_slope / max(speed, 1).
C26_TurnOnlyAbove5 ==
    sb_out.op = "check_turn" =>
        LET s == sb_out.spd_kmh
            h == heading_change(sb.last_course, sb_out.cse)
        IN  /\ s <= 5 => ~sb_out.detected
            /\ s > 5 =>
                  (sb_out.detected <=>
                      h * s > cfg.smartbeaconing_min_turn_angle * s + cfg.smartbeaconing_turn_slope)

\* C27: the heading change used by the turn detection is min(|d|, 360 - |d|)
\* for d = cse - last_course, lies in 0 .. 180, and is 20 for last_course
\* 350 and course 10.
C27_HeadingChangeCircular ==
    (sb_out.op = "check_turn" /\ sb_out.spd_kmh >= 5) =>
        LET d == Abs(sb_out.cse - sb.last_course)
        IN  /\ sb_out.heading_change = Min(d, 360 - d)
            /\ sb_out.heading_change \in 0..180
            /\ (sb.last_course = 350 /\ sb_out.cse = 10) => sb_out.heading_change = 20

\* the turn check ran at 50 km/h with last_course 350 and course 10 and
\* used a heading change of 20
C27_Witness ==
    /\ sb_out.op = "check_turn"
    /\ sb_out.spd_kmh = 50
    /\ sb.last_course = 350
    /\ sb_out.cse = 10
    /\ sb_out.heading_change = 20
    /\ ~sb_out.detected

(***************************************************************************)
(* The health flag and the fallback cache of the handler.                  *)
(***************************************************************************)
\* an acquisition call resumes with the completed future of its worker
AcquisitionResumesWith(tag) ==
    /\ acq.pc = "polling"
    /\ acq.future.tag = tag
    /\ acq' = AcqIdle

\* C28: a poll of _retrieve_data that reached no usable data without an
\* error (the worker returned None: the daemon answered but gave no fix)
\* leaves the health flag as it was; only an unreachable daemon clears it
C28_NoFixKeepsHealthy ==
    [][AcquisitionResumesWith("none") => healthy' = healthy]_vars

\* C29: when get_position ends with a report from the daemon, the
\* coordinates written to the fallback cache are those of the report (the
\* raw fix), not those of the filter
C29_CacheHoldsRawFix ==
    [][(AcquisitionResumesWith("result") /\ acq.kind = "TPV")
        => /\ gps_cache'.lat = acq.future.data.lat
           /\ gps_cache'.lon = acq.future.data.lon
           /\ gps_cache'.alt = acq.future.data.alt]_vars

(***************************************************************************)
(* main: the sessions and their health-check tasks on the event loop.      *)
(* aio.ready is the loop's queue of callbacks, run first in first out;     *)
(* main runs from "top" until it suspends, and a task runs only while      *)
(* main is suspended.  Telegram is disabled, as by default, so that the    *)
(* awaits of tg_logger return at once.                                     *)
(***************************************************************************)
\* the task that asyncio.run creates for main()
MainTask == 0

\* asyncio.create_task(gps_handler.run_health_check()), line 1447
NewTask == [pc |-> "created", must_cancel |-> FALSE, future |-> Pending]

InReady(a, i) == \E k \in DOMAIN a.ready : a.ready[k] = i

\* the health-check tasks whose coroutine has not ended
Live(a) == {i \in DOMAIN a.tasks : a.tasks[i].pc # "done"}

\* variant of main_finally_cancels that leaves the task alone
main_finally_cancels_never(health_check_task) == FALSE

\* main, line 1458: if health_check_task:
main_finally_cancels(health_check_task) == health_check_task # NoTask

\* health_check_task.cancel(), line 1459: a request; the task receives
\* CancelledError when the loop runs it next
cancel(a, i) ==
    IF a.tasks[i].pc = "done" THEN a
    ELSE [a EXCEPT !.tasks[i].must_cancel = TRUE,
                   !.ready = IF InReady(a, i) THEN @ ELSE Append(@, i)]

\* main, lines 1446-1451, after initialize_session returned or raised: the
\* task is created when GPSD is enabled and main suspends in process_loop
session_run(a, gpsd_enabled, connected) ==
    IF ~connected THEN [a EXCEPT !.pc = "returned", !.cause = "raise"]
    ELSE IF gpsd_enabled
    THEN LET id == Len(a.tasks) + 1
         IN  [a EXCEPT !.pc = "in_loop", !.health_check_task = id,
                       !.tasks = Append(@, NewTask), !.ready = Append(@, id)]
    ELSE [a EXCEPT !.pc = "in_loop"]

sessionFrame ==
    <<now, daemon, last_valid_fix, kf_lat, kf_lon, gps_cache, acq, hc, ret, sbVars, scn,
      timer, loop, log, proc, counter, gaps, kf_out, aprs>>

\* main, lines 1443-1445, and initialize_session: the configuration is read
\* again and a new handler is made; with GPSD enabled main suspends on the
\* worker of get_position (line 1376), else it runs on to process_loop
MainSessionBegin ==
    /\ aio.pc = "top"
    /\ reload_event' = FALSE
    /\ healthy' = TRUE
    /\ \E g \in BOOLEAN, connected \in BOOLEAN :
          /\ cfg' = [cfg EXCEPT !.gpsd_enabled = g]
          /\ aio' = IF g THEN [aio EXCEPT !.pc = "initializing", !.sessions = @ + 1]
                    ELSE session_run([aio EXCEPT !.sessions = @ + 1], g, connected)
    /\ UNCHANGED sessionFrame

\* the worker of initialize_session's get_position completes its future
InitWorkerDone ==
    /\ aio.pc = "initializing"
    /\ ~InReady(aio, MainTask)
    /\ aio' = [aio EXCEPT !.ready = Append(@, MainTask)]
    /\ UNCHANGED <<cfg, healthy, reload_event, sessionFrame>>

\* initialize_session, lines 1377-1386, and main, lines 1446-1451
MainSessionRun ==
    /\ aio.pc = "initializing"
    /\ aio.ready # <<>>
    /\ Head(aio.ready) = MainTask
    /\ \E connected \in BOOLEAN :
          aio' = session_run([aio EXCEPT !.ready = Tail(@)], cfg.gpsd_enabled, connected)
    /\ UNCHANGED <<cfg, healthy, reload_event, sessionFrame>>

\* signal_handler, lines 1360-1362
SigHup ==
    /\ aio.pc = "in_loop"
    /\ aio.sessions < MaxSessions
    /\ ~reload_event
    /\ reload_event' = TRUE
    /\ UNCHANGED <<cfg, healthy, aio, sessionFrame>>

\* process_loop is woken for the last time: it will return because a
\* reload was asked for, or leave with an exception
ProcessLoopEnds ==
    /\ aio.pc = "in_loop"
    /\ ~InReady(aio, MainTask)
    /\ \E cause \in IF reload_event THEN {"reload", "raise"} ELSE {"raise"} :
          aio' = [aio EXCEPT !.cause = cause, !.ready = Append(@, MainTask)]
    /\ UNCHANGED <<cfg, healthy, reload_event, sessionFrame>>

\* main, lines 1452-1462: the finally block and the end of the iteration
MainSessionEnd ==
    /\ aio.pc = "in_loop"
    /\ aio.ready # <<>>
    /\ Head(aio.ready) = MainTask
    /\ LET popped == [aio EXCEPT !.ready = Tail(@)]
           c == IF main_finally_cancels(aio.health_check_task)
                THEN cancel(popped, aio.health_check_task) ELSE popped
       IN  aio' = [c EXCEPT !.pc = IF aio.cause = "raise" \/ ~reload_event
                                   THEN "returned" ELSE "top"]
    /\ UNCHANGED <<cfg, healthy, reload_event, sessionFrame>>

\* the worker of a health check's poll completes its future, or its sleep
\* of line 644 ends
TaskWake(i) ==
    /\ aio.pc \in {"initializing", "in_loop"}
    /\ aio.tasks[i].pc \in {"polling", "sleeping"}
    /\ ~InReady(aio, i)
    /\ \E o \in fetch_from_gpsd("VERSION", daemon, now) :
          aio' = [aio EXCEPT !.ready = Append(@, i),
                             !.tasks[i].future =
                                 IF aio.tasks[i].pc = "polling" THEN o ELSE Pending]
    /\ UNCHANGED <<cfg, healthy, reload_event, sessionFrame>>

\* the loop runs a health-check task up to its next suspension:
\* run_health_check, lines 618-644; a cancelled task ends, CancelledError
\* not being an Exception
TaskStep(i) ==
    /\ aio.pc \in {"initializing", "in_loop"}
    /\ aio.ready # <<>>
    /\ Head(aio.ready) = i
    /\ LET t == aio.tasks[i]
           to(pc) == [aio EXCEPT !.ready = Tail(@), !.tasks[i].pc = pc,
                                 !.tasks[i].future = Pending]
       IN  IF t.must_cancel
           THEN aio' = to("done") /\ UNCHANGED healthy
           ELSE CASE t.pc = "created" ->
                       IF ~cfg.gpsd_enabled
                       THEN aio' = to("done") /\ healthy' = FALSE
                       ELSE aio' = to("polling") /\ UNCHANGED healthy
                  [] t.pc = "polling" ->
                       aio' = to("sleeping") /\ healthy' = (t.future.tag = "result")
                  [] t.pc = "sleeping" ->
                       aio' = to("polling") /\ UNCHANGED healthy
    /\ UNCHANGED <<cfg, reload_event, sessionFrame>>

\* asyncio.run, line 1469, once main has returned or raised: the tasks
\* left are cancelled and run to their end, and the loop is closed
LoopClose ==
    /\ aio.pc = "returned"
    /\ aio' = [aio EXCEPT !.pc = "exited", !.ready = <<>>,
                          !.tasks = [i \in DOMAIN @ |-> [@[i] EXCEPT !.pc = "done"]]]
    /\ UNCHANGED <<cfg, healthy, reload_event, sessionFrame>>

InitSession ==
    /\ now = 0
    /\ daemon \in {"down", "nofix", "fix"}
    /\ cfg = Config(FALSE, FALSE)
    /\ healthy = TRUE
    /\ last_valid_fix = None
    /\ kf_lat = KalmanTracker_init
    /\ kf_lon = KalmanTracker_init
    /\ gps_cache = None
    /\ acq = AcqIdle
    /\ hc = [pc |-> "absent", future |-> Pending]
    /\ ret = [call |-> "none", val |-> None, raised |-> FALSE]
    /\ InitRest

NextSession ==
    \/ MainSessionBegin
    \/ InitWorkerDone
    \/ MainSessionRun
    \/ SigHup
    \/ ProcessLoopEnds
    \/ MainSessionEnd
    \/ \E i \in DOMAIN aio.tasks : TaskWake(i)
    \/ \E i \in DOMAIN aio.tasks : TaskStep(i)
    \/ LoopClose
    \/ DaemonChange

SpecSession == InitSession /\ [][NextSession]_vars

\* C30: at most one health-check loop is live at any time; when a session
\* has ended, by reload or by shutdown, the cancellation of its task has
\* been asked for, and the task of an earlier session has ended before the
\* next one is created; none is left when the program has shut down
C30_OneHealthCheckLoop ==
    /\ Cardinality(Live(aio)) <= 1
    /\ aio.pc \in {"top", "returned"} => \A i \in Live(aio) : aio.tasks[i].must_cancel
    /\ aio.pc = "exited" => Live(aio) = {}

\* after a reload the task of the first session has ended and the task of
\* the second session polls
C30_Witness ==
    /\ aio.sessions = 2
    /\ aio.pc = "in_loop"
    /\ Len(aio.tasks) = 2
    /\ aio.tasks[1].pc = "done"
    /\ aio.tasks[2].pc = "polling"

(***************************************************************************)
(* should_send as a total function, and its first call after a start.      *)
(***************************************************************************)
\* C32: every call of should_send, with any fix or with none, returns a
\* boolean and raises nothing, and a call without a fix returns False
C32_ShouldSendTotal ==
    /\ sb_out.exc = "none"
    /\ sb_out.ret \in BOOLEAN
    /\ sb_out.fix = None => ~sb_out.ret

\* C40: as long as no report was made since the start (last_beacon_time is
\* still 0), a call evaluated in the moving state with a speed above 3 km/h
\* returns 'report'
C40_FirstMovingCallReports ==
    [][(BeaconCall /\ Above3Kmh(sb_out'.fix) /\ sb.last_beacon_time = 0 /\
        (sb.is_moving \/ ~Within10m(sb_out'.fix.lat, sb_out'.fix.lon,
                                    AnchorLat(sb_out'.fix), AnchorLon(sb_out'.fix))))
       => (sb_out'.exc = "none" /\ sb_out'.ret)]_vars

(***************************************************************************)
(* The tick of an iteration, the reload check and a failing tick write.    *)
(***************************************************************************)
\* the tick scope of an iteration has produced the tick loop'.tick
TickProduced == proc.pc = "running" /\ loop.pc = "top" /\ loop'.pc # "top"

\* C35: every tick the Timer produces is evaluated against the conditions
\* of the tasks: an iteration that has produced a tick t with t mod 1200 = 1
\* goes on to the position report, also when the reload event is set; it
\* does not end the loop with the tick unused
C35_NoTickLostToReload ==
    [][(TickProduced /\ loop'.tick % 1200 = 1) => loop'.pc # "stopped"]_vars

\* C38: within one running process the tick of an iteration is the tick of
\* the iteration before it plus one modulo 86400, also when the write of the
\* tick file at the end of the scope has failed
C38_FailedWriteKeepsTicking ==
    [][(TickProduced /\ loop.iter >= 1) => loop'.tick = (loop.tick + 1) % TimerModulo]_vars

(***************************************************************************)
(* Sessions with GPSD: the loop of a session, its health check, and the    *)
(* reload that ends the session and starts the next one.                   *)
(***************************************************************************)
\* main, lines 1452-1462 and 1443-1445, with initialize_session up to line
\* 1376: the loop has ended on the reload event; the task of the health
\* check is cancelled, the event is cleared, a new handler is made and main
\* suspends on the worker of its first get_position
ReloadBegin ==
    /\ proc.pc = "running"
    /\ loop.pc = "stopped"
    /\ reload_event
    /\ cfg.gpsd_enabled
    /\ proc.sessions < MaxSessions
    /\ proc' = [proc EXCEPT !.pc = "init"]
    /\ reload_event' = FALSE
    /\ hc' = [pc |-> "cancelled", future |-> Pending]
    /\ healthy' = TRUE
    /\ last_valid_fix' = None
    /\ kf_lat' = KalmanTracker_init
    /\ kf_lon' = KalmanTracker_init
    /\ acq' = [pc |-> "polling", kind |-> "TPV", caller |-> "init", timestamp |-> now,
               future |-> Pending]
    /\ UNCHANGED <<envVars, cfg, gps_cache, ret, sbVars, scn, timer, loop, log, benchVars>>

\* initialize_session, lines 1376-1386, and main, lines 1446-1451: the
\* position of the new handler becomes the configured one, the sender
\* connects, the session gets a new Timer and a new trigger, the health
\* check of the session is created and process_loop starts
ReloadResume ==
    /\ proc.pc = "init"
    /\ acq.caller = "init"
    /\ AcquireResume
    /\ cfg' = IF ret'.raised THEN cfg
              ELSE [cfg EXCEPT !.latitude = ret'.val.lat, !.longitude = ret'.val.lon,
                               !.altitude = ret'.val.alt]
    /\ \E errors \in {0, max_retries}, has_EX_NOHOST \in BOOLEAN :
          LET c == connect(errors, has_EX_NOHOST)
          IN  /\ loop' = [LoopIdle EXCEPT !.pc = IF ret'.raised THEN "crashed"
                                                 ELSE IF c.kind = "returned" THEN "top"
                                                 ELSE "exited"]
              /\ proc' = [proc EXCEPT !.pc = "running", !.exit_code = c.code,
                                      !.sessions = proc.sessions + 1]
    /\ timer' = Timer_init(timer.file)
    /\ sb' = SmartBeaconing_init
    /\ hc' = [pc |-> "created", future |-> Pending]
    /\ log' = <<>>
    /\ UNCHANGED <<envVars, sb_out, scn, reload_event, benchVars>>

InitReload ==
    /\ now = 0
    /\ daemon = "fix"
    /\ cfg \in {Config(TRUE, TRUE), Config(TRUE, FALSE)}
    /\ healthy = TRUE
    /\ last_valid_fix = None
    /\ kf_lat = KalmanTracker_init
    /\ kf_lon = KalmanTracker_init
    /\ gps_cache = None
    /\ acq = AcqIdle
    /\ hc = [pc |-> "created", future |-> Pending]
    /\ ret = [call |-> "none", val |-> None, raised |-> FALSE]
    /\ sb = SmartBeaconing_init
    /\ sb_out = NoCall
    /\ scn = NoScenario
    /\ timer = Timer_init(PyInt(0))
    /\ reload_event = FALSE
    /\ loop = LoopIdle
    /\ log = <<>>
    /\ proc = ProcRunning
    /\ counter = NoCounter
    /\ gaps = NoGaps
    /\ kf_out = NoKfCall
    /\ aio = NoLoop
    /\ aprs = NoSend

NextReload ==
    \/ LoopTop
    \/ LoopPositionResume
    \/ TaskEnd
    \/ StatusEnd
    \/ LoopSleepEnd
    \/ SetReload
    \/ WorkerDone
    \/ ReloadBegin
    \/ ReloadResume
    \/ HealthCheckStart
    \/ HealthWorkerDone
    \/ HealthCheckResume
    \/ HealthCheckWake

SpecReload == InitReload /\ [][NextReload]_vars

\* a step in which a session of a running process starts after a reload
ReloadStarts == proc.pc = "init" /\ proc'.pc = "running" /\ proc.sessions >= 1

\* C31: a reload within the process keeps the trigger: the session that
\* starts has the last_beacon_time, last_course, anchor, is_moving and
\* initialized that the session before it left
C31_ReloadKeepsTrigger ==
    [][ReloadStarts => sb' = sb]_vars

\* C33: within a session the trigger changes only in a step that calls
\* should_send; the end of a dispatched position report, sent or failed, and
\* the status report after it change no field of it; and with the trigger
\* or GPSD disabled no step changes it
C33_OnlyShouldSendChangesTrigger ==
    [][/\ (proc.pc = "running" /\ proc'.pc = "running" /\ sb' # sb) =>
             sb_out'.calls # sb_out.calls
       /\ (loop.pc = "task" /\ TaskOrder[loop.idx] = "position") => sb' = sb
       /\ loop.pc = "status" => sb' = sb
       /\ ~(cfg.gpsd_enabled /\ cfg.smartbeaconing_enabled) => sb' = sb]_vars

\* the position report that the tick alone made due has been sent after
\* should_send had seeded the anchor of the trigger
C33_Witness ==
    /\ cfg.smartbeaconing_enabled
    /\ sb.initialized
    /\ sb_out.fix # None
    /\ ~sb_out.ret
    /\ Len(log) >= 1
    /\ log[1] = [name |-> "position", out |-> "sent"]

(***************************************************************************)
(* Who writes what: the scheduler, the health check and the workers.       *)
(***************************************************************************)
\* a step of a worker thread: _fetch_from_gpsd returns
WorkerReturns ==
    \/ acq.pc = "polling" /\ acq.future = Pending /\ acq'.future # Pending
    \/ hc.pc = "polling" /\ hc.future = Pending /\ hc'.future # Pending

\* the filters, the last valid fix, the cache, the tick and the trigger
schedulerOwned == <<kf_lat, kf_lon, last_valid_fix, gps_cache, timer, sb>>

\* C34: a worker returns its value and writes nothing else; the health
\* check writes the health flag and nothing of what the scheduler owns;
\* the filters, the last valid fix, the cache, the tick and the trigger
\* change only in steps of the scheduler loop; the flag changes only in a
\* step of the health check or of the scheduler loop
C34_SingleWriter ==
    [][/\ WorkerReturns => UNCHANGED <<healthy, schedulerOwned, cfg, ret, loop>>
       /\ (hc' # hc /\ ~WorkerReturns) => UNCHANGED <<schedulerOwned, loop, acq, ret>>
       /\ schedulerOwned' # schedulerOwned => (loop' # loop /\ hc' = hc)
       /\ healthy' # healthy => (loop' # loop) # (hc' # hc)]_vars

\* the health check is about to set the cleared flag while an iteration of
\* the scheduler loop, which has written a valid fix, dispatches its tasks
C34_Witness ==
    /\ ~healthy
    /\ hc.pc = "polling"
    /\ hc.future.tag = "result"
    /\ last_valid_fix # None
    /\ loop.pc = "task"

(***************************************************************************)
(* Recovery of the health flag: the handler with GPSD enabled, polled by   *)
(* get_position again and again, and its health check, both scheduled      *)
(* fairly by the event loop and the executor.                              *)
(***************************************************************************)
InitRecovery ==
    /\ now = 0
    /\ daemon \in {"down", "nofix", "fix"}
    /\ cfg = Config(TRUE, FALSE)
    /\ healthy = TRUE
    /\ last_valid_fix = None
    /\ kf_lat = KalmanTracker_init
    /\ kf_lon = KalmanTracker_init
    /\ gps_cache = None
    /\ acq = AcqIdle
    /\ hc = [pc |-> "created", future |-> Pending]
    /\ ret = [call |-> "none", val |-> None, raised |-> FALSE]
    /\ InitRest

NextRecovery ==
    \/ CallGetPosition
    \/ WorkerDone
    \/ CallReturns
    \/ HealthCheckStart
    \/ HealthWorkerDone
    \/ HealthCheckResume
    \/ HealthCheckWake
    \/ Tick
    \/ DaemonChange

\* the event loop runs every task that is ready and the executor finishes
\* every poll; a call whose worker has finished does not wait for ever to
\* be resumed, and the scheduler loop calls get_position in every
\* iteration, so that a healthy handler does not stay unpolled for ever
FairRecovery ==
    /\ WF_vars(HealthCheckStart)
    /\ WF_vars(HealthWorkerDone)
    /\ WF_vars(HealthCheckResume)
    /\ WF_vars(HealthCheckWake)
    /\ WF_vars(WorkerDone)
    /\ []<>~(acq.pc = "polling" /\ acq.future # Pending)
    /\ []<>~(acq.pc = "idle" /\ healthy)

SpecRecovery == InitRecovery /\ [][NextRecovery]_vars /\ FairRecovery

\* C36: when from some point on the daemon stays reachable and delivers
\* fixes, the health flag becomes true and stays true, and get_position
\* comes back with a report of the daemon again and again
C36_HealthRecovers ==
    <>[](daemon = "fix") =>
        /\ <>[]healthy
        /\ []<><<AcquisitionResumesWith("result") /\ acq.kind = "TPV">>_vars

\* the flag is false, get_position has returned a fallback, the daemon
\* delivers fixes again and the poll of the health check has seen it
C36_Witness ==
    /\ ~healthy
    /\ daemon = "fix"
    /\ ret.call = "get_position"
    /\ hc.pc = "polling"
    /\ hc.future.tag = "result"

(***************************************************************************)
(* APRSSender.send_telemetry with its Sequence scope and send_packet, and  *)
(* connect attempt by attempt.  The transport is a collaborator: sendall   *)
(* and ais.connect succeed, raise APRSConnectionError or raise something   *)
(* else.  GPSD is disabled, so that the payload needs no get_satellites.   *)
(***************************************************************************)
\* send_telemetry, line 1286: Sequence(name='telem_sequence', modulo=1000)
TelemetryModulo == 1000

\* what sendall and ais.connect can do
TransportOutcomes == {"ok", "APRSConnectionError", "other"}

\* send_packet, lines 1219-1227: where the call stands after sendall
send_packet_after(outcome) ==
    CASE outcome = "ok"                  -> "returned"
      [] outcome = "APRSConnectionError" -> "connecting"
      [] OTHER                           -> "raised"

\* connect, lines 1204-1215: where the call stands after attempt number
\* attempt (from 0) of ais.connect
connect_after(outcome, attempt) ==
    CASE outcome = "ok"                  -> "sending"
      [] outcome = "APRSConnectionError" ->
            IF attempt + 1 < max_retries THEN "connecting" ELSE "exited"
      [] OTHER                           -> "raised"

sendFrame ==
    <<envVars, cfg, gpsVars, acq, hc, ret, sbVars, scn, loopVars, counter, gaps, kf_out, aio>>

\* send_telemetry, lines 1286-1306: the sequence scope produces the number
\* and writes it back, the payload is built and send_packet is entered
SendTelemetry ==
    /\ aprs.pc \in {"idle", "returned", "raised"}
    /\ \E ok \in BOOLEAN :
          LET loaded == PersistentCounter_load(aprs.file, TelemetryModulo)
              seq    == PersistentCounter_count(loaded, TelemetryModulo)
          IN  aprs' = [pc |-> "sending", file |-> PersistentCounter_save(aprs.file, seq, ok),
                       seq |-> seq, prev |-> aprs.seq, attempt |-> 0, handed |-> 0]
    /\ UNCHANGED sendFrame

\* send_packet, lines 1221-1224: the delay ends and sendall is called
SendAll ==
    /\ aprs.pc = "sending"
    /\ \E outcome \in TransportOutcomes :
          aprs' = [aprs EXCEPT !.pc = send_packet_after(outcome), !.attempt = 0,
                               !.handed = IF outcome = "ok" THEN @ + 1 ELSE @]
    /\ UNCHANGED sendFrame

\* connect, lines 1204-1215: one attempt of ais.connect
ConnectAttempt ==
    /\ aprs.pc = "connecting"
    /\ \E outcome \in TransportOutcomes :
          aprs' = [aprs EXCEPT !.pc = connect_after(outcome, aprs.attempt),
                               !.attempt = IF outcome = "APRSConnectionError"
                                           THEN @ + 1 ELSE @]
    /\ UNCHANGED sendFrame

\* the supervisor starts the program again after sys.exit; the sequence
\* file is kept
SenderRestart ==
    /\ aprs.pc = "exited"
    /\ aprs' = [aprs EXCEPT !.pc = "idle", !.attempt = 0, !.handed = 0]
    /\ UNCHANGED sendFrame

InitSend ==
    /\ now = 0
    /\ daemon = "down"
    /\ cfg = Config(FALSE, FALSE)
    /\ healthy = TRUE
    /\ last_valid_fix = None
    /\ kf_lat = KalmanTracker_init
    /\ kf_lon = KalmanTracker_init
    /\ gps_cache = None
    /\ acq = AcqIdle
    /\ hc = [pc |-> "absent", future |-> Pending]
    /\ ret = [call |-> "none", val |-> None, raised |-> FALSE]
    /\ InitRest

NextSend ==
    \/ SendTelemetry
    \/ SendAll
    \/ ConnectAttempt
    \/ SenderRestart

\* every step that can be taken is taken at some time: delays end, the
\* transport answers, the scheduler calls send_telemetry again
SpecSend == InitSend /\ [][NextSend]_vars /\ WF_vars(NextSend)

\* C37: every call of send_packet ends: it returns having handed the
\* payload to the transport, the process exits in connect, or an exception
\* leaves it; it does not go on retrying for ever
C37_SendPacketTerminates ==
    (aprs.pc = "sending") ~> (aprs.pc \in {"returned", "exited", "raised"})

\* C39: the sequence number of a send_telemetry invocation is the number of
\* the invocation before it plus one modulo 1000, whether that one was
\* sent, failed or ended the process
C39_SequenceNeverReused ==
    [][(aprs.pc # "sending" /\ aprs'.pc = "sending" /\ aprs.seq # NoTick)
        => aprs'.seq = (aprs.seq + 1) % TelemetryModulo]_vars
====
